---- MODULE Spec2Model ----
(***************************************************************************)
(* Linear optical model of the GMT (gmt-lom): rigid body motions of the M1 *)
(* and M2 segments, the optical sensitivities applied to them, and the     *)
(* statistics of the resulting optical metrics.                            *)
(*                                                                         *)
(* f64 values are modelled by exact numbers: integers for the motions, the *)
(* sensitivities and their products, rationals (Rat) for the statistics.   *)
(* Rounding is not modelled.                                               *)
(***************************************************************************)
EXTENDS Integers, Sequences, FiniteSets, TLC

VARIABLES
    pc,       \* "builder" | "lom" | "stats" | "panicked"
    samples,  \* the data the motions come from: the iterator handed to the builder,
              \* the table, or the payloads an actor has read: [ctor, items]
    builder,  \* LOMBuilder: [sens : Option, rbm : Option]
    sens,     \* LOM.sens: OpticalSensitivities, a sequence of [variant, val]
    rbm,      \* LOM.rbm: RigidBodyMotions [sampling_frequency, time, data]
    out,      \* the value returned by the last LOM call: [op, ok, val]
    metric,   \* an optical metric (TipTilt, SegmentTipTilt, SegmentPiston): [kind, buf]
    res,      \* the value returned by the last Stats / OpticalMetrics call
    env,      \* the files: [default : Option], the content of optical_sensitivities.rs.bin
    remote,   \* the object store: [calls], the requests it has received, in order
    task      \* to_stored_parquet: its arguments and locals
              \* [path, bytes, upload, chunk, parts, part_number]

vars == <<pc, samples, builder, sens, rbm, out, metric, res, env, remote, task>>

----------------------------------------------------------------------------
(* Bounds of the model *)

\* largest number of time samples of an iterator of rigid body motions
MaxCols == 2
\* value patterns of the rigid body motions: 0 all zero, 1 M1 only, 2.. M1 and M2
MaxSeed == 2
\* largest number of time samples of an optical metric handed to Stats
MaxSamples == 3
\* value patterns of the optical metrics
MaxMetricSeed == 2
\* largest number of rows of a table of rigid body motions
MaxRows == 3

(* Program constants *)

\* number of rigid body motions: the rows of the motion matrix
NDof == 84
\* rigid body motions of one mirror: 7 segments x 6 motions
NM1 == 42
\* items of the TipTilt, SegmentTipTilt and SegmentPiston metrics
NTipTilt == 2
NSegmentTipTilt == 14
NSegmentPiston == 7

----------------------------------------------------------------------------
(* Option<T> *)

None == [some |-> FALSE, val |-> 0]
Some(x) == [some |-> TRUE, val |-> x]
\* unwrap_or_default() in place of unwrap_or(d): 0 when there is no value
UnwrapOrDefault(o, d) == IF o.some THEN o.val ELSE 0
UnwrapOr(o, d) == IF o.some THEN o.val ELSE d

(* Iterator adaptors over a sequence (0-based counts, as in Rust) *)

Skip(s, n) == IF n >= Len(s) THEN <<>> ELSE [i \in 1..(Len(s) - n) |-> s[i + n]]
Take(s, n) == IF n >= Len(s) THEN s ELSE [i \in 1..n |-> s[i]]
StepBy(s, n) == [i \in 1..((Len(s) + n - 1) \div n) |-> s[(i - 1) * n + 1]]

RECURSIVE SumUpTo(_, _)
SumUpTo(s, n) == IF n = 0 THEN 0 ELSE s[n] + SumUpTo(s, n - 1)
Sum(s) == SumUpTo(s, Len(s))

RECURSIVE Flatten(_)
Flatten(ss) == IF ss = <<>> THEN <<>> ELSE Head(ss) \o Flatten(Tail(ss))

----------------------------------------------------------------------------
(* nalgebra::DMatrix<f64>: column-major storage *)

Matrix(nrows, ncols, data) == [nrows |-> nrows, ncols |-> ncols, data |-> data]
\* entry (i, j), 0-based
At(m, i, j) == m.data[j * m.nrows + i + 1]
\* DMatrix::from_vec / from_column_slice panic unless the buffer holds nrows*ncols values
FromVecOk(nrows, ncols, data) == Len(data) = nrows * ncols
FromVec(nrows, ncols, data) == Matrix(nrows, ncols, data)

----------------------------------------------------------------------------
(* Results of a call: a value, or a panic *)

Ok(v) == [ok |-> TRUE, val |-> v, err |-> ""]
Panic(msg) == [ok |-> FALSE, val |-> <<>>, err |-> msg]

----------------------------------------------------------------------------
(* f64 quotients, exactly: num / den in lowest terms with den > 0; x / 0 is an
   infinity (num = 1 or -1, den = 0) or, for 0 / 0, NaN (num = 0, den = 0) *)

Abs(x) == IF x < 0 THEN -x ELSE x
Sign(x) == IF x < 0 THEN -1 ELSE IF x = 0 THEN 0 ELSE 1
RECURSIVE Gcd(_, _)
Gcd(a, b) == IF b = 0 THEN a ELSE Gcd(b, a % b)

Rat(n, d) ==
    IF d = 0 THEN [num |-> Sign(n), den |-> 0]
    ELSE LET g == Gcd(Abs(n), Abs(d))
         IN  [num |-> Sign(d) * (n \div g), den |-> Abs(d) \div g]
RInt(x) == Rat(x, 1)
RAdd(a, b) == Rat(a.num * b.den + b.num * a.den, a.den * b.den)
RSub(a, b) == Rat(a.num * b.den - b.num * a.den, a.den * b.den)
RMul(a, b) == Rat(a.num * b.num, a.den * b.den)
\* a / (n as f64)
RDivInt(a, n) == Rat(a.num, a.den * n)
\* f64::sqrt, kept symbolic
Sqrt(a) == [sqrt |-> a]

\* fold(0f64, |a, x| a + x * x) over a sequence of quotients
RECURSIVE SumSquaresUpTo(_, _)
SumSquaresUpTo(s, n) ==
    IF n = 0 THEN RInt(0) ELSE RAdd(SumSquaresUpTo(s, n - 1), RMul(s[n], s[n]))

----------------------------------------------------------------------------
(* RigidBodyMotions *)

Rbm(sf, time, data) == [sampling_frequency |-> sf, time |-> time, data |-> data]

\* Default for RigidBodyMotions: no sampling frequency, no time, zeros(84, 1)
RbmDefault == Rbm(None, None, Matrix(NDof, 1, [i \in 1..NDof |-> 0]))

\* FromIterator<(Vec<Vec<f64>>, Vec<Vec<f64>>)>: each mirror is flattened, M1 is
\* chained with M2, the samples are chained, and from_vec(84, len / 84, data)
\* panics unless data holds 84 * (len / 84) values
FromIterNested(items) ==
    LET data == Flatten([k \in 1..Len(items) |->
                    Flatten(items[k][1]) \o Flatten(items[k][2])])
        ncols == Len(data) \div NDof
    IN  IF FromVecOk(NDof, ncols, data)
        THEN Ok(Rbm(None, None, FromVec(NDof, ncols, data)))
        ELSE Panic("Data storage buffer dimension mismatch.")

\* M2 chained with M1: the mirrors exchanged
FromIterFlatM2First(items) ==
    LET data == Flatten([k \in 1..Len(items) |-> items[k][2] \o items[k][1]])
        ncols == Len(data) \div NDof
    IN  IF FromVecOk(NDof, ncols, data)
        THEN Ok(Rbm(None, None, FromVec(NDof, ncols, data)))
        ELSE Panic("Data storage buffer dimension mismatch.")

\* FromIterator<(&[f64], &[f64])>: M1 chained with M2, the samples chained
FromIterFlat(items) ==
    LET data == Flatten([k \in 1..Len(items) |-> items[k][1] \o items[k][2]])
        ncols == Len(data) \div NDof
    IN  IF FromVecOk(NDof, ncols, data)
        THEN Ok(Rbm(None, None, FromVec(NDof, ncols, data)))
        ELSE Panic("Data storage buffer dimension mismatch.")

FromIter(it) ==
    IF it.ctor = "nested" THEN FromIterNested(it.items) ELSE FromIterFlat(it.items)

\* row_iter_mut(): the rows of the matrix, in order
RowIter(m) == [i \in 1..m.nrows |-> i - 1]
Range(s) == {s[i] : i \in 1..Len(s)}
\* for_each(|mut x| x.iter_mut().for_each(|x| *x = 0f64)) over the rows `rows`
ZeroRows(m, rows) ==
    Matrix(m.nrows, m.ncols,
           [idx \in 1..Len(m.data) |->
               IF ((idx - 1) % m.nrows) \in rows THEN 0 ELSE m.data[idx]])

\* take(41) in place of take(42): the last M1 row is kept
ZeroedM1Short(r) == [r EXCEPT !.data = ZeroRows(r.data, Range(Take(RowIter(r.data), NM1 - 1)))]
ZeroedM1(r) == [r EXCEPT !.data = ZeroRows(r.data, Range(Take(RowIter(r.data), NM1)))]
ZeroedM2(r) == [r EXCEPT !.data = ZeroRows(r.data, Range(Skip(RowIter(r.data), NM1)))]

\* f64::recip
RRecip(a) == Rat(a.den, a.num)

\* the time vector always synthesized: a stored one is not looked at
TimeSynthesized(r) ==
    LET tau == RRecip(UnwrapOr(r.sampling_frequency, RInt(1)))
    IN  [i \in 1..r.data.ncols |-> RMul(tau, RInt(i - 1))]
\* RigidBodyMotions::time: the stored time vector, or tau * i for each column i
Time(r) ==
    IF r.time.some THEN r.time.val
    ELSE LET tau == RRecip(UnwrapOr(r.sampling_frequency, RInt(1)))
         IN  [i \in 1..r.data.ncols |-> RMul(tau, RInt(i - 1))]

----------------------------------------------------------------------------
(* The iterators of rigid body motions handed to the builder *)

\* motion p (0-based) of mirror m (0: M1, 1: M2) in time sample k (0-based)
Val(seed, k, m, p) ==
    IF seed = 0 THEN 0
    ELSE IF seed = 1 THEN (IF m = 0 THEN ((p + 2 * k) % 5) - 2 ELSE 0)
    ELSE (((seed + 1) * p + 2 * k + 3 * m + (p \div 6)) % 7) - 3

FlatMirror(seed, k, m, len) == [p \in 1..len |-> Val(seed, k, m, p - 1)]
\* 7 segments of 6 motions; a miscount goes to the last segment
NestedMirror(seed, k, m, len) ==
    LET flat == FlatMirror(seed, k, m, len)
    IN  [s \in 1..7 |-> IF s < 7 THEN SubSeq(flat, 6 * (s - 1) + 1, 6 * s)
                                 ELSE SubSeq(flat, 37, len)]

\* the number of values a sample gives for one mirror: right, one short, one long
MirrorLens == {NM1 - 1, NM1, NM1 + 1}
WellFormedLens == {NM1}

Iter(ctor, seed, lens) ==
    [ctor |-> ctor,
     items |-> [k \in 1..Len(lens) |->
        IF ctor = "nested"
        THEN <<NestedMirror(seed, k - 1, 0, lens[k][1]), NestedMirror(seed, k - 1, 1, lens[k][2])>>
        ELSE <<FlatMirror(seed, k - 1, 0, lens[k][1]), FlatMirror(seed, k - 1, 1, lens[k][2])>>]]

Iters(ctors, lenset) ==
    {Iter(ctor, seed, lens) :
        ctor \in ctors, seed \in 0..MaxSeed,
        lens \in UNION {[1..n -> lenset \X lenset] : n \in 0..MaxCols}}

NoIter == [ctor |-> "none", items |-> <<>>]

\* the number of values sample k of an iterator gives for mirror m (1: M1, 2: M2)
MirrorCount(it, k, m) ==
    IF it.ctor = "nested" THEN Len(Flatten(it.items[k][m])) ELSE Len(it.items[k][m])

----------------------------------------------------------------------------
(* OpticalSensitivities: a Vec of OpticalSensitivity, each a variant and its payload *)

Sens(variant, val) == [variant |-> variant, val |-> val]

\* a sensitivity payload of `len` values
SensVal(a, len) == [i \in 1..len |-> ((a * (i - 1) + ((i - 1) \div 5)) % 5) - 2]

\* the segment masks (one segment id per illuminated pupil point) and pupil masks
\* (illuminated or not, per point of the pupil grid) of the stores
Masks ==
    { [seg |-> <<1>>,       pupil |-> <<TRUE>>],
      [seg |-> <<1, 1>>,    pupil |-> <<TRUE, TRUE>>],
      [seg |-> <<1, 2>>,    pupil |-> <<TRUE, FALSE, TRUE>>],
      [seg |-> <<2, 1>>,    pupil |-> <<FALSE, TRUE, TRUE>>],
      [seg |-> <<7, 7>>,    pupil |-> <<TRUE, TRUE, FALSE>>],
      [seg |-> <<3, 1, 3>>, pupil |-> <<TRUE, FALSE, TRUE, TRUE>>] }

\* the store OpticalSensitivities::compute builds, in its order
Store(mask) ==
    << Sens("Wavefront", SensVal(3, Len(mask.seg) * NDof)),
       Sens("TipTilt", SensVal(1, NTipTilt * NDof)),
       Sens("SegmentPiston", SensVal(2, NSegmentPiston * NDof)),
       Sens("SegmentTipTilt", SensVal(4, NSegmentTipTilt * NDof)),
       Sens("SegmentMask", mask.seg),
       Sens("PupilMask", mask.pupil) >>

Stores == {Store(mask) : mask \in Masks}

\* derive(PartialEq): equal when the variants and the payloads are
SensEqDerived(a, b) == a.variant = b.variant /\ a.val = b.val
\* PartialEq for OpticalSensitivity: equal when the variants are, whatever the payloads
SensEq(a, b) == a.variant = b.variant

\* a lookup that falls back on the first element of the store
IndexOrFirst(store, key) ==
    LET hits == {i \in 1..Len(store) : SensEq(key, store[i])}
    IN  IF hits = {}
        THEN Ok(store[1])
        ELSE Ok(store[CHOOSE i \in hits : \A j \in hits : i <= j])

\* Index<OpticalSensitivity>: the first element equal to the key, or a panic
Index(store, key) ==
    LET hits == {i \in 1..Len(store) : SensEq(key, store[i])}
    IN  IF hits = {}
        THEN Panic("cannot find optical sensitivity")
        ELSE Ok(store[CHOOSE i \in hits : \A j \in hits : i <= j])

----------------------------------------------------------------------------
(* OpticalSensitivity::into_optics *)

\* the slice read row after row: from_row_slice in place of from_column_slice
FromRowSlice(nrows, ncols, slice) ==
    Matrix(nrows, ncols,
           [idx \in 1..Len(slice) |->
               slice[((idx - 1) % nrows) * ncols + ((idx - 1) \div nrows) + 1]])
FromColumnSlice(nrows, ncols, slice) == Matrix(nrows, ncols, slice)
AsSlice(m) == m.data

\* the matrix product a * b
MatMul(a, b) ==
    Matrix(a.nrows, b.ncols,
           [idx \in 1..(a.nrows * b.ncols) |->
               LET i == (idx - 1) % a.nrows
                   j == (idx - 1) \div a.nrows
               IN  Sum([k \in 1..a.ncols |-> At(a, i, k - 1) * At(b, k - 1, j)])])

\* the rows of the sensitivity matrix of a variant
SensRows(s) ==
    CASE s.variant = "Wavefront" -> Len(s.val) \div NDof
      [] s.variant = "TipTilt" -> NTipTilt
      [] s.variant = "SegmentTipTilt" -> NSegmentTipTilt
      [] s.variant = "SegmentPiston" -> NSegmentPiston
      [] OTHER -> 0

\* the differential piston `v` that the SegmentPiston arm builds and drops:
\* for each of the first 6 rows, the later rows minus that row
DifferentialPiston(m) ==
    Flatten([k \in 1..(NSegmentPiston - 1) |->
        Flatten([y \in 1..(NSegmentPiston - k) |->
            [c \in 1..m.ncols |-> At(m, k + y - 1, c - 1) - At(m, k - 1, c - 1)]])])

IntoOpticsDifferential(s, data) ==
    IF s.variant \in {"SegmentMask", "PupilMask"}
    THEN Panic("not implemented")
    ELSE IF ~FromVecOk(SensRows(s), NDof, s.val)
    THEN Panic("Matrix init. error: the slice did not contain the right number of elements.")
    ELSE IF data.nrows # NDof
    THEN Panic("Matrix multiplication dimensions mismatch.")
    ELSE IF s.variant = "SegmentPiston"
    THEN Ok(DifferentialPiston(MatMul(FromColumnSlice(SensRows(s), NDof, s.val), data)))
    ELSE Ok(AsSlice(MatMul(FromColumnSlice(SensRows(s), NDof, s.val), data)))

\* from_column_slice(rows, N, sens) * rbm, as a column-major slice; the mask
\* variants are unimplemented
IntoOptics(s, data) ==
    IF s.variant \in {"SegmentMask", "PupilMask"}
    THEN Panic("not implemented")
    ELSE IF ~FromVecOk(SensRows(s), NDof, s.val)
    THEN Panic("Matrix init. error: the slice did not contain the right number of elements.")
    ELSE IF data.nrows # NDof
    THEN Panic("Matrix multiplication dimensions mismatch.")
    ELSE Ok(AsSlice(MatMul(FromColumnSlice(SensRows(s), NDof, s.val), data)))

----------------------------------------------------------------------------
(* LOM: the transforms of the rigid body motions *)

\* self.sens[key].into_optics(self.rbm.data())
Transform(store, r, variant) ==
    LET s == Index(store, Sens(variant, <<>>))
    IN  IF s.ok THEN IntoOptics(s.val, r.data) ELSE s

Tiptilt(store, r) == Transform(store, r, "TipTilt")
SegmentPiston(store, r) == Transform(store, r, "SegmentPiston")
SegmentTiptilt(store, r) == Transform(store, r, "SegmentTipTilt")
MaskedWavefront(store, r) == Transform(store, r, "Wavefront")

Min(a, b) == IF a <= b THEN a ELSE b

\* segment_wavefront, as indices into the masked wavefront: for each sid in 1..=7,
\* wavefront.by_ref().zip(mask).filter_map(..).collect().  The wavefront is ONE
\* iterator shared by the seven passes: a pass starts where the last one stopped.
\* Zip takes a wavefront value before it asks the mask, so a pass that ends on
\* the end of the mask has consumed one more wavefront value.
RECURSIVE SegmentBuckets(_, _, _, _)
SegmentBuckets(n, mask, sid, pos) ==
    IF sid > 7 THEN <<>>
    ELSE LET left == n - pos
             zipped == Min(left, Len(mask))
             hits == SelectSeq([i \in 1..zipped |-> i], LAMBDA i : mask[i] = sid)
             bucket == [j \in 1..Len(hits) |-> pos + hits[j] - 1]
             next == pos + zipped + (IF left > Len(mask) THEN 1 ELSE 0)
         IN  <<bucket>> \o SegmentBuckets(n, mask, sid + 1, next)

SegmentWavefront(store, r) ==
    LET w == Transform(store, r, "Wavefront")
        m == Index(store, Sens("SegmentMask", <<>>))
    IN  IF ~w.ok THEN w
        ELSE IF ~m.ok THEN m
        ELSE LET buckets == SegmentBuckets(Len(w.val), m.val.val, 1, 0)
             IN  Ok([b \in 1..7 |->
                        [j \in 1..Len(buckets[b]) |-> w.val[buckets[b][j] + 1]]])

----------------------------------------------------------------------------
(* The calls on a LOM *)

Out(op, r) == [op |-> op, ok |-> r.ok, val |-> r.val, err |-> r.err]
NoOut == Out("none", Ok(<<>>))
NoMetric == [kind |-> "none", buf |-> <<>>]
NoRes == [op |-> "none", n_sample |-> None, ok |-> TRUE, val |-> <<>>, err |-> ""]
NoBuilder == [sens |-> None, rbm |-> None]
NoEnv == [default |-> None]
NoRemote == [calls |-> <<>>]
NoTask == [path |-> "", bytes |-> 0, upload |-> None, chunk |-> 0, parts |-> <<>>, part_number |-> 0]
NoRbm == Rbm(None, None, Matrix(0, 0, <<>>))

\* a call that returns leaves the LOM usable; a panic ends the program
Return(op, r) ==
    /\ out' = Out(op, r)
    /\ pc' = IF r.ok THEN pc ELSE "panicked"

CallZeroedM1 ==
    /\ pc = "lom"
    /\ rbm' = ZeroedM1(rbm)
    /\ Return("zeroed_m1", Ok(<<>>))
    /\ UNCHANGED <<samples, builder, sens, metric, res, env, remote, task>>

CallZeroedM2 ==
    /\ pc = "lom"
    /\ rbm' = ZeroedM2(rbm)
    /\ Return("zeroed_m2", Ok(<<>>))
    /\ UNCHANGED <<samples, builder, sens, metric, res, env, remote, task>>

\* a tip-tilt kept from the first call and returned by the later ones
CallTiptiltCached ==
    /\ pc = "lom"
    /\ IF metric = NoMetric
       THEN /\ Return("tiptilt", Tiptilt(sens, rbm))
            /\ metric' = IF Tiptilt(sens, rbm).ok
                         THEN [kind |-> "TipTilt", buf |-> Tiptilt(sens, rbm).val] ELSE metric
       ELSE /\ Return("tiptilt", Ok(metric.buf))
            /\ metric' = metric
    /\ UNCHANGED <<samples, builder, sens, rbm, res, env, remote, task>>

CallTiptilt ==
    /\ pc = "lom"
    /\ Return("tiptilt", Tiptilt(sens, rbm))
    /\ UNCHANGED <<samples, builder, sens, rbm, metric, res, env, remote, task>>

CallSegmentTiptilt ==
    /\ pc = "lom"
    /\ Return("segment_tiptilt", SegmentTiptilt(sens, rbm))
    /\ UNCHANGED <<samples, builder, sens, rbm, metric, res, env, remote, task>>

CallSegmentPiston ==
    /\ pc = "lom"
    /\ Return("segment_piston", SegmentPiston(sens, rbm))
    /\ UNCHANGED <<samples, builder, sens, rbm, metric, res, env, remote, task>>

CallMaskedWavefront ==
    /\ pc = "lom"
    /\ Return("masked_wavefront", MaskedWavefront(sens, rbm))
    /\ UNCHANGED <<samples, builder, sens, rbm, metric, res, env, remote, task>>

CallSegmentWavefront ==
    /\ pc = "lom"
    /\ Return("segment_wavefront", SegmentWavefront(sens, rbm))
    /\ UNCHANGED <<samples, builder, sens, rbm, metric, res, env, remote, task>>

\* a LOM built from a store and from well-formed rigid body motions (or the default)
Init ==
    /\ pc = "lom"
    /\ samples \in Iters({"nested"}, WellFormedLens) \cup {NoIter}
    /\ sens \in Stores
    /\ rbm = IF samples = NoIter THEN RbmDefault ELSE FromIter(samples).val
    /\ builder = NoBuilder
    /\ out = NoOut
    /\ metric = NoMetric
    /\ res = NoRes
    /\ remote = NoRemote
    /\ task = NoTask
    /\ env = NoEnv

Next ==
    \/ CallZeroedM1
    \/ CallZeroedM2
    \/ CallTiptilt
    \/ CallSegmentTiptilt
    \/ CallSegmentPiston
    \/ CallMaskedWavefront
    \/ CallSegmentWavefront

Spec == Init /\ [][Next]_vars

----------------------------------------------------------------------------
(* Properties of the transforms *)

AllZero(seq) == \A i \in 1..Len(seq) : seq[i] = 0
\* the store's payload of a variant
Payload(variant) == Index(sens, Sens(variant, <<>>)).val.val
\* the number of illuminated pupil points: the rows of the wavefront sensitivity
PupilPoints == Len(Payload("Wavefront")) \div 84
\* sum over the 84 motions j of sens[j*rows + r] * data[j, k]
Dot(payload, rows, r, k) ==
    Sum([j \in 1..84 |-> payload[(j - 1) * rows + r + 1] * At(rbm.data, j - 1, k)])
IsProduct(variant, rows) ==
    /\ out.ok
    /\ Len(out.val) = rows * rbm.data.ncols
    /\ \A k \in 0..(rbm.data.ncols - 1) : \A r \in 0..(rows - 1) :
          out.val[k * rows + r + 1] = Dot(Payload(variant), rows, r, k)

\* C1: into_optics of the TipTilt (2 rows), SegmentTipTilt (14), SegmentPiston (7)
\* and Wavefront (len/84) sensitivities on the 84 x N motions returns rows*N values,
\* element k*rows + r being the sum over j of sens[j*rows + r] * data[j, k]: the
\* matrix product, the channels of one time sample contiguous.
C1_IntoOpticsIsProduct ==
    /\ out.op = "tiptilt" => IsProduct("TipTilt", 2)
    /\ out.op = "segment_tiptilt" => IsProduct("SegmentTipTilt", 14)
    /\ out.op = "segment_piston" => IsProduct("SegmentPiston", 7)
    /\ out.op = "masked_wavefront" => IsProduct("Wavefront", PupilPoints)

\* C1 happens: a segment tip-tilt of two time samples that differ, not all zero
C1_Witness ==
    /\ out.op = "segment_tiptilt" /\ out.ok
    /\ rbm.data.ncols = 2
    /\ \E r \in 1..14 : out.val[r] # 0 /\ out.val[r] # out.val[14 + r]

\* C2: the seven subsequences segment_wavefront returns have, together, the length
\* of the masked wavefront, and every index of the masked wavefront is in exactly
\* one of them: the one of the segment id its SegmentMask entry names.
C2_SegmentWavefrontPartition ==
    out.op = "segment_wavefront" /\ out.ok =>
        LET n == PupilPoints * rbm.data.ncols
            mask == Payload("SegmentMask")
            buckets == SegmentBuckets(n, mask, 1, 0)
        IN  /\ Sum([b \in 1..7 |-> Len(out.val[b])]) = n
            /\ \A b \in 1..7 : Len(out.val[b]) = Len(buckets[b])
            /\ \A idx \in 0..(n - 1) : \A b \in 1..7 :
                  (\E j \in 1..Len(buckets[b]) : buckets[b][j] = idx)
                      <=> (b = mask[(idx % Len(mask)) + 1])

BlockZero(m, rows) == \A i \in rows : \A j \in 0..(m.ncols - 1) : At(m, i, j) = 0
BlockSame(m, n, rows) == \A i \in rows : \A j \in 0..(m.ncols - 1) : At(m, i, j) = At(n, i, j)
SameShape(m, n) == m.nrows = n.nrows /\ m.ncols = n.ncols /\ Len(m.data) = Len(n.data)

\* C4: zeroed_m1 zeroes rows 0..41 of every column and leaves rows 42..83, the
\* shape, the time vector and the sampling frequency as they were; zeroed_m2 does
\* so with the two blocks exchanged; each is idempotent and the two commute.
C4_ZeroedFrame ==
    [][ /\ CallZeroedM1 =>
            /\ SameShape(rbm.data, rbm'.data)
            /\ BlockZero(rbm'.data, 0..41)
            /\ BlockSame(rbm.data, rbm'.data, 42..83)
            /\ rbm'.time = rbm.time
            /\ rbm'.sampling_frequency = rbm.sampling_frequency
            /\ ZeroedM1(rbm') = rbm'
            /\ ZeroedM2(rbm') = ZeroedM1(ZeroedM2(rbm))
        /\ CallZeroedM2 =>
            /\ SameShape(rbm.data, rbm'.data)
            /\ BlockZero(rbm'.data, 42..83)
            /\ BlockSame(rbm.data, rbm'.data, 0..41)
            /\ rbm'.time = rbm.time
            /\ rbm'.sampling_frequency = rbm.sampling_frequency
            /\ ZeroedM2(rbm') = rbm'
            /\ ZeroedM1(rbm') = ZeroedM2(ZeroedM1(rbm))
      ]_vars

\* C4 happens: zeroed_m1 on motions whose row 41 (the last of M1) was not zero
\* in some sample, M2 being kept and not zero
C4_Witness ==
    /\ out.op = "zeroed_m1"
    /\ samples # NoIter
    /\ \E k \in 1..Len(samples.items) : Flatten(samples.items[k][1])[42] # 0
    /\ BlockZero(rbm.data, 0..41)
    /\ ~BlockZero(rbm.data, 42..83)

\* C5: when every entry of the motion matrix is zero (the builder default, zero
\* samples, or zeroed_m1 on motions whose M2 is zero), tiptilt, segment_tiptilt,
\* segment_piston and masked_wavefront return 2*N, 14*N, 7*N and P*N zeros.
C5_ZeroMotionsZeroMetrics ==
    /\ (samples = NoIter /\ out.op = "none") =>
            rbm.data.ncols = 1 /\ Len(rbm.data.data) = 84 /\ AllZero(rbm.data.data)
    /\ AllZero(rbm.data.data) =>
        /\ out.op = "tiptilt" =>
            out.ok /\ Len(out.val) = 2 * rbm.data.ncols /\ AllZero(out.val)
        /\ out.op = "segment_tiptilt" =>
            out.ok /\ Len(out.val) = 14 * rbm.data.ncols /\ AllZero(out.val)
        /\ out.op = "segment_piston" =>
            out.ok /\ Len(out.val) = 7 * rbm.data.ncols /\ AllZero(out.val)
        /\ out.op = "masked_wavefront" =>
            out.ok /\ Len(out.val) = PupilPoints * rbm.data.ncols /\ AllZero(out.val)

\* C5 happens: the segment piston of two samples whose M1 was not zero and was
\* zeroed, M2 being zero
C5_Witness ==
    /\ out.op = "segment_piston" /\ out.ok
    /\ samples # NoIter /\ Len(samples.items) = 2
    /\ \E p \in 1..42 : Flatten(samples.items[1][1])[p] # 0
    /\ AllZero(rbm.data.data)
    /\ Len(out.val) = 14

----------------------------------------------------------------------------
(* Bin for OpticalSensitivities: bincode files *)

\* the variants of OpticalSensitivity, in the order of the enum
Variants ==
    <<"Wavefront", "TipTilt", "SegmentTipTilt", "SegmentPiston", "SegmentMask", "PupilMask">>

\* the variants by name: TipTilt and SegmentTipTilt, SegmentMask and PupilMask exchanged
VariantIndexByName(variant) ==
    CASE variant = "Wavefront" -> 0
      [] variant = "TipTilt" -> 2
      [] variant = "SegmentTipTilt" -> 1
      [] variant = "SegmentPiston" -> 3
      [] variant = "SegmentMask" -> 5
      [] variant = "PupilMask" -> 4
\* the u32 bincode writes for a variant: its position in the enum
VariantIndex(variant) == (CHOOSE i \in 1..Len(Variants) : Variants[i] = variant) - 1

\* a value of a payload as bincode writes it: the 8 bytes of an f64 and the 4
\* bytes of an i32 (one token each, the value they hold), the byte 0 or 1 of a bool
SerializeVal(variant, x) == IF variant = "PupilMask" THEN (IF x THEN 1 ELSE 0) ELSE x
\* any other byte is not a bool
DeserializeValOk(variant, b) == variant = "PupilMask" => b \in {0, 1}
DeserializeVal(variant, b) == IF variant = "PupilMask" THEN b = 1 ELSE b

\* an enum value: the variant index, then the Vec: its length and its values
SerializeSens(s) ==
    <<VariantIndex(s.variant), Len(s.val)>>
        \o [i \in 1..Len(s.val) |-> SerializeVal(s.variant, s.val[i])]
\* bincode::serialize_into of the store: the length of the Vec and its elements
Serialize(store) ==
    <<Len(store)>> \o Flatten([i \in 1..Len(store) |-> SerializeSens(store[i])])

\* a Result::Err
Err(e) == [ok |-> FALSE, val |-> <<>>, err |-> e]

\* n elements read from position pos of the bytes
RECURSIVE DeserializeSeq(_, _, _)
DeserializeSeq(bytes, pos, n) ==
    IF n = 0 THEN Ok(<<>>)
    ELSE IF pos + 1 > Len(bytes) THEN Err("SensitivityData")
    ELSE IF bytes[pos] \notin 0..(Len(Variants) - 1) THEN Err("SensitivityData")
    ELSE LET variant == Variants[bytes[pos] + 1]
             len == bytes[pos + 1]
         IN  IF pos + 1 + len > Len(bytes) THEN Err("SensitivityData")
             ELSE IF \E i \in 1..len : ~DeserializeValOk(variant, bytes[pos + 1 + i])
             THEN Err("SensitivityData")
             ELSE LET rest == DeserializeSeq(bytes, pos + 2 + len, n - 1)
                  IN  IF ~rest.ok THEN rest
                      ELSE Ok(<<Sens(variant,
                                     [i \in 1..len |->
                                         DeserializeVal(variant, bytes[pos + 1 + i])])>>
                              \o rest.val)

\* bincode::deserialize_from
Deserialize(bytes) ==
    IF Len(bytes) < 1 THEN Err("SensitivityData") ELSE DeserializeSeq(bytes, 2, bytes[1])

\* Bin::load: File::open(path)?, then deserialize_from(..)?
Load(e, path) ==
    IF ~e[path].some THEN Err("SensitivityFile") ELSE Deserialize(e[path].val)

----------------------------------------------------------------------------
(* The calls on a store: indexing, dump and load *)

\* the stores: as computed, in another order, and with one variant missing
TwoSegments == {m \in Masks : Len(m.seg) = 2 /\ m.seg[1] # m.seg[2]}
PartialStores ==
    {SelectSeq(Store(mask), LAMBDA s : s.variant # Variants[v]) :
        v \in 1..Len(Variants), mask \in {m \in TwoSegments : m.seg[1] = 1}}
AnyStores ==
    {Store(mask) : mask \in TwoSegments} \cup PartialStores
        \cup {[i \in 1..Len(Store(mask)) |-> Store(mask)[Len(Store(mask)) + 1 - i]] :
                mask \in {m \in TwoSegments : m.seg[1] = 1}}

\* a file that none of the stores serializes to
OtherFile == Serialize(Store([seg |-> <<4>>, pupil |-> <<FALSE, TRUE>>]))

\* the payloads of the keys: the empty placeholder, or some values
KeyPayloads(variant) ==
    IF variant = "PupilMask" THEN {<<>>, <<FALSE, TRUE>>} ELSE {<<>>, <<1, 2>>}

OutKey(op, key, r) == [op |-> op, key |-> key, ok |-> r.ok, val |-> r.val, err |-> r.err]

\* self[key]: Index::index, which panics when no element is found
CallIndex ==
    \E v \in 1..Len(Variants) : \E payload \in KeyPayloads(Variants[v]) :
        LET key == Sens(Variants[v], payload)
            r == Index(sens, key)
        IN  /\ pc = "store"
            /\ out' = OutKey("index", key, r)
            /\ pc' = IF r.ok THEN pc ELSE "panicked"
            /\ UNCHANGED <<samples, builder, sens, rbm, metric, res, env, remote, task>>

\* self.dump(path): the file is created and written, the store is returned
CallDump ==
    /\ pc = "store"
    \* File::create(path) and the write of the bytes
    /\ env' = [env EXCEPT !["default"] = Some(Serialize(sens))]
    /\ out' = Out("dump", Ok(sens))
    /\ UNCHANGED <<pc, samples, builder, sens, rbm, metric, res, remote, task>>

\* OpticalSensitivities::load(path): a store, or an error
CallLoad ==
    /\ pc = "store"
    /\ out' = Out("load", Load(env, "default"))
    /\ UNCHANGED <<pc, samples, builder, sens, rbm, metric, res, env, remote, task>>

InitStore ==
    /\ pc = "store"
    /\ sens \in AnyStores
    /\ env \in {[default |-> f] : f \in {None, Some(OtherFile), Some(<<1, 9>>)}}
    /\ samples = NoIter
    /\ builder = NoBuilder
    /\ rbm = NoRbm
    /\ out = NoOut
    /\ metric = NoMetric
    /\ res = NoRes
    /\ remote = NoRemote
    /\ task = NoTask

NextStore ==
    \/ CallIndex
    \/ CallDump
    \/ CallLoad

SpecStore == InitStore /\ [][NextStore]_vars

\* the positions of the store that hold the variant
Holding(variant) == {i \in 1..Len(sens) : sens[i].variant = variant}

\* C11: indexing the store by a key returns the element of the key's variant,
\* whatever the payload of the key (the empty placeholder included): every key of
\* that variant gives the same element; an element of another variant is never
\* equal to the key, and without an element of the variant the call panics.
C11_IndexByVariant ==
    out.op = "index" =>
        LET variant == out.key.variant
        IN  /\ out.ok <=> Holding(variant) # {}
            /\ out.ok =>
                /\ out.val.variant = variant
                /\ \E i \in Holding(variant) : out.val = sens[i]
                /\ \A payload \in KeyPayloads(variant) \cup {out.val.val} :
                      Index(sens, Sens(variant, payload)) = Ok(out.val)
            /\ \A i \in 1..Len(sens) :
                  sens[i].variant # variant => ~SensEq(out.key, sens[i])

\* C11 happens: a key with a payload finds an element that is not the first of
\* the store and that holds another payload
C11_Witness ==
    /\ out.op = "index" /\ out.ok
    /\ out.key.val # <<>>
    /\ out.val.val # out.key.val
    /\ out.val # sens[1]

SameStore(a, b) ==
    /\ Len(a) = Len(b)
    /\ \A i \in 1..Len(a) :
          /\ a[i].variant = b[i].variant
          /\ Len(a[i].val) = Len(b[i].val)
          /\ \A j \in 1..Len(a[i].val) : a[i].val[j] = b[i].val[j]

----------------------------------------------------------------------------
(* LOMBuilder *)

\* into_iter_rigid_body_motions: rbm: Some(data.collect()), on nested vectors
IntoIterRigidBodyMotions ==
    \E it \in Iters({"nested"}, MirrorLens) :
        /\ pc = "builder"
        /\ samples = NoIter
        /\ samples' = it
        /\ LET r == FromIterNested(it.items)
           IN  /\ builder' = IF r.ok THEN [builder EXCEPT !.rbm = Some(r.val)] ELSE builder
               /\ Return("into_iter_rigid_body_motions", IF r.ok THEN Ok(<<>>) ELSE r)
        /\ UNCHANGED <<sens, rbm, metric, res, env, remote, task>>

\* iter_rigid_body_motions: rbm: Some(data.collect()), on flat slices
IterRigidBodyMotions ==
    \E it \in Iters({"flat"}, MirrorLens) :
        /\ pc = "builder"
        /\ samples = NoIter
        /\ samples' = it
        /\ LET r == FromIterFlat(it.items)
           IN  /\ builder' = IF r.ok THEN [builder EXCEPT !.rbm = Some(r.val)] ELSE builder
               /\ Return("iter_rigid_body_motions", IF r.ok THEN Ok(<<>>) ELSE r)
        /\ UNCHANGED <<sens, rbm, metric, res, env, remote, task>>

\* build: sens: self.sens.unwrap_or(Loader::default().load()?), the argument of
\* unwrap_or being evaluated first; rbm: self.rbm.unwrap_or_default()
Build ==
    /\ pc = "builder"
    \* Loader::<OpticalSensitivities>::default().load(): the store in the file
    \* optical_sensitivities.rs.bin, or an error when it cannot be read
    /\ LET d == Load(env, "default")
       IN  IF d.ok
           THEN /\ sens' = UnwrapOr(builder.sens, d.val)
                /\ rbm' = UnwrapOr(builder.rbm, RbmDefault)
                /\ pc' = "lom"
                /\ out' = Out("build", Ok(<<>>))
           ELSE /\ pc' = "error"
                /\ out' = Out("build", d)
                /\ UNCHANGED <<sens, rbm>>
    /\ UNCHANGED <<samples, builder, metric, res, env, remote, task>>

\* a builder that was given a store or not, the default file being there or not
InitBuild ==
    /\ pc = "builder"
    /\ samples = NoIter
    /\ \E given \in Stores, file \in Stores :
          /\ builder \in {[sens |-> o, rbm |-> None] : o \in {None, Some(given)}}
          /\ env \in {[default |-> o] : o \in {None, Some(Serialize(file))}}
          /\ SensEq(given[1], file[1]) /\ Len(given[5].val) = 1 /\ Len(file[5].val) = 3
    /\ sens = <<>>
    /\ rbm = NoRbm
    /\ out = NoOut
    /\ metric = NoMetric
    /\ res = NoRes
    /\ remote = NoRemote
    /\ task = NoTask

NextBuild ==
    \/ IntoIterRigidBodyMotions
    \/ IterRigidBodyMotions
    \/ Build

SpecBuild == InitBuild /\ [][NextBuild]_vars

\* C3: a RigidBodyMotions is built from an iterator of (M1, M2) samples only if
\* every sample gives exactly 42 values for M1 and 42 for M2: with any other
\* sample the construction is rejected, also when the miscounts cancel and
\* the total is a multiple of 84.
C3_MiscountRejected ==
    (/\ samples # NoIter
     /\ \E k \in 1..Len(samples.items) : \E m \in 1..2 : MirrorCount(samples, k, m) # 42)
        => (pc = "panicked" /\ ~builder.rbm.some)

\* the samples of an iterator as the other constructor takes them: the segments
\* of a mirror flattened, or the 42 values of a mirror cut in 7 segments of 6
FlatItems(items) ==
    [k \in 1..Len(items) |-> <<Flatten(items[k][1]), Flatten(items[k][2])>>]
NestedItems(items) ==
    [k \in 1..Len(items) |->
        <<[sg \in 1..7 |-> SubSeq(items[k][1], 6 * sg - 5, 6 * sg)],
          [sg \in 1..7 |-> SubSeq(items[k][2], 6 * sg - 5, 6 * sg)]>>]
WellFormed(it) ==
    /\ it # NoIter
    /\ \A k \in 1..Len(it.items) : \A m \in 1..2 :
          /\ MirrorCount(it, k, m) = 42
          /\ it.ctor = "nested" =>
                Len(it.items[k][m]) = 7 /\ \A sg \in 1..7 : Len(it.items[k][m][sg]) = 6

\* C15: from samples of 7 segments of 6 values per mirror, both constructors give
\* the 84 x N matrix whose entry (42*m + 6*s + d, k) is the value of motion d of
\* segment s of mirror m in the k-th sample; the constructor from nested vectors
\* and the one from slices, on the same samples flattened, give the same matrix.
C15_ConstructorLayout ==
    WellFormed(samples) =>
        /\ builder.rbm.some
        /\ LET data == builder.rbm.val.data
               N == Len(samples.items)
           IN  /\ data.nrows = 84 /\ data.ncols = N /\ Len(data.data) = 84 * N
               /\ \A k \in 0..(N - 1) : \A m \in 0..1 : \A sg \in 0..6 : \A d \in 0..5 :
                     At(data, 42 * m + 6 * sg + d, k)
                        = IF samples.ctor = "nested"
                          THEN samples.items[k + 1][m + 1][sg + 1][d + 1]
                          ELSE samples.items[k + 1][m + 1][6 * sg + d + 1]
        /\ samples.ctor = "nested" =>
              FromIterFlat(FlatItems(samples.items)) = Ok(builder.rbm.val)
        /\ samples.ctor = "flat" =>
              FromIterNested(NestedItems(samples.items)) = Ok(builder.rbm.val)

\* C15 happens: two samples that differ, given as slices, M1 and M2 not the same
C15_Witness ==
    /\ WellFormed(samples) /\ samples.ctor = "flat" /\ Len(samples.items) = 2
    /\ builder.rbm.some
    /\ samples.items[1][1] # samples.items[1][2]
    /\ samples.items[1] # samples.items[2]
    /\ At(builder.rbm.val.data, 47, 1) = samples.items[2][2][6] /\ samples.items[2][2][6] # 0

----------------------------------------------------------------------------
(* RigidBodyMotions::from_record: the motions of an Arrow table *)

\* the default labels of the M1 and M2 columns
M1Label == "OSSM1Lcl"
M2Label == "MCM2Lcl6D"

\* the entry of a row in a column: a list of 42 values, a list with a null
\* element, or null
ListEntry(k, m, kind) ==
    CASE kind = "null" -> None
      [] kind = "elem" ->
            Some([p \in 1..NM1 |-> IF p = 5 THEN None ELSE Some(Val(MaxSeed, k, m, p - 1))])
      [] OTHER -> Some([p \in 1..NM1 |-> Some(Val(MaxSeed, k, m, p - 1))])

Table(columns, kinds) ==
    [ctor |-> "record", columns |-> columns,
     items |-> [k \in 1..Len(kinds) |->
                  <<ListEntry(k - 1, 0, kinds[k][1]), ListEntry(k - 1, 1, kinds[k][2])>>]]

\* the rows: complete, M1 null, M2 null, or a null element in the M2 list
Tables ==
    {Table({M1Label, M2Label}, kinds) :
        kinds \in UNION {[1..n -> {<<"list", "list">>, <<"null", "list">>,
                                   <<"list", "null">>, <<"list", "elem">>}] :
                          n \in 0..MaxRows}}
    \cup {Table(columns, <<<<"list", "list">>, <<"list", "list">>>>) :
            columns \in {{M1Label}, {M2Label}}}

\* iter().collect::<Option<Vec<f64>>>(): the values, or None with a null element
CollectOption(list) ==
    IF \E p \in 1..Len(list) : ~list[p].some THEN None
    ELSE Some([p \in 1..Len(list) |-> list[p].val])

\* the item filter_map gives for row k (0-based): (k as f64, M1 chained with M2)
RecordItem(items, k) ==
    LET m1 == items[k + 1][1]
        m2 == items[k + 1][2]
    IN  IF ~(m1.some /\ m2.some) THEN None
        ELSE LET m1_rbm_data == CollectOption(m1.val)
                 m2_rbm_data == CollectOption(m2.val)
             IN  IF m1_rbm_data.some /\ m2_rbm_data.some
                 THEN Some([time |-> k, rbm |-> m1_rbm_data.val \o m2_rbm_data.val])
                 ELSE None

\* the rows numbered after the filter: the time is the position among the kept rows
FilterMapRenumbered(items) ==
    LET all == [k \in 1..Len(items) |-> RecordItem(items, k - 1)]
        kept == SelectSeq(all, LAMBDA o : o.some)
    IN  [i \in 1..Len(kept) |-> [time |-> i - 1, rbm |-> kept[i].val.rbm]]

\* enumerate().filter_map(..): the items of the rows that give one, in order
FilterMap(items) ==
    LET all == [k \in 1..Len(items) |-> RecordItem(items, k - 1)]
        kept == SelectSeq(all, LAMBDA o : o.some)
    IN  [i \in 1..Len(kept) |-> kept[i].val]

\* from_record: schema.index_of(label)? for both columns; unzip into time and rbm;
\* sampling_frequency: Some((time[1] - time[0]).recip()), where time[1] panics with
\* fewer than 2 kept rows; data: DMatrix::from_iterator(84, n, rbm flattened)
FromRecord(t) ==
    IF M1Label \notin t.columns \/ M2Label \notin t.columns THEN Err("FromRecord")
    ELSE LET kept == FilterMap(t.items)
             time == [i \in 1..Len(kept) |-> RInt(kept[i].time)]
             data == Flatten([i \in 1..Len(kept) |-> kept[i].rbm])
             n == Len(time)
         IN  IF n < 2 THEN Panic("index out of bounds")
             ELSE IF ~FromVecOk(NDof, n, data) THEN Panic("Allocation from iterator error")
             ELSE Ok(Rbm(Some(RRecip(RSub(time[2], time[1]))), Some(time),
                         Matrix(NDof, n, data)))

\* RigidBodyMotions::from_record(table, None, None)
CallFromRecord ==
    \E t \in Tables :
        LET r == FromRecord(t)
        IN  /\ pc = "record"
            /\ samples' = t
            /\ rbm' = IF r.ok THEN r.val ELSE rbm
            /\ out' = Out("from_record", IF r.ok THEN Ok(<<>>) ELSE r)
            /\ pc' = IF r.ok THEN "rbm" ELSE IF r.err = "FromRecord" THEN "error" ELSE "panicked"
            /\ UNCHANGED <<builder, sens, metric, res, env, remote, task>>

\* RigidBodyMotions::from_iter on samples of 42 motions per mirror
CallFromIter ==
    \E it \in Iters({"nested", "flat"}, WellFormedLens) :
        /\ pc = "record"
        /\ samples' = it
        /\ rbm' = FromIter(it).val
        /\ out' = Out("from_iter", Ok(<<>>))
        /\ pc' = "rbm"
        /\ UNCHANGED <<builder, sens, metric, res, env, remote, task>>

\* RigidBodyMotions::time
CallRbmTime ==
    /\ pc = "rbm"
    /\ out' = Out("time", Ok(Time(rbm)))
    /\ UNCHANGED <<pc, samples, builder, sens, rbm, metric, res, env, remote, task>>

InitRecord ==
    /\ pc = "record"
    /\ samples = NoIter
    /\ rbm = NoRbm
    /\ builder = NoBuilder
    /\ sens = <<>>
    /\ out = NoOut
    /\ metric = NoMetric
    /\ res = NoRes
    /\ remote = NoRemote
    /\ task = NoTask
    /\ env = NoEnv

NextRecord ==
    \/ CallFromRecord
    \/ CallFromIter
    \/ CallRbmTime

SpecRecord == InitRecord /\ [][NextRecord]_vars

\* row k (0-based) of the table has both lists, without a null element
Complete(k) ==
    /\ samples.items[k + 1][1].some /\ samples.items[k + 1][2].some
    /\ \A m \in 1..2 : \A p \in 1..Len(samples.items[k + 1][m].val) :
          samples.items[k + 1][m].val[p].some
\* the indices of the complete rows, in order
KeptRows == SelectSeq([k \in 1..Len(samples.items) |-> k - 1], Complete)

\* C16: time() returns the stored time vector when there is one; otherwise N
\* values, N the columns, value i being i / sampling_frequency with 1 for a
\* sampling frequency that is not set: 0, 1, .., N-1 after the in-memory constructors.
C16_TimeVector ==
    out.op = "time" =>
        /\ out.ok
        /\ rbm.time.some => out.val = rbm.time.val
        /\ ~rbm.time.some =>
              LET f == UnwrapOr(rbm.sampling_frequency, RInt(1))
              IN  /\ Len(out.val) = rbm.data.ncols
                  /\ \A i \in 0..(rbm.data.ncols - 1) :
                        /\ out.val[i + 1].den > 0
                        /\ out.val[i + 1].num * f.num = i * f.den * out.val[i + 1].den
        /\ samples.ctor \in {"nested", "flat"} =>
              out.val = [i \in 1..Len(samples.items) |-> RInt(i - 1)]

\* C16 happens: the time of motions read from a table with a row dropped, which
\* is not 0, 1, ..
C16_Witness ==
    /\ out.op = "time" /\ out.ok
    /\ rbm.time.some /\ rbm.data.ncols = 2
    /\ out.val = <<RInt(0), RInt(2)>>

\* C17: from_record keeps the rows whose M1 and M2 lists are there and hold no
\* null, in their order, and drops the others: column i of the matrix is M1 then M2
\* of the i-th kept row, time i is the index of that row in the table, there are as
\* many times as columns, and the sampling frequency is the reciprocal of the
\* difference of the first two kept indices.
C17_FromRecordKeepsCompleteRows ==
    (samples.ctor = "record" /\ samples.columns = {M1Label, M2Label} /\ Len(KeptRows) >= 2) =>
        /\ pc = "rbm"
        /\ rbm.data.nrows = 84 /\ rbm.data.ncols = Len(KeptRows)
        /\ Len(rbm.data.data) = 84 * Len(KeptRows)
        /\ \A i \in 1..Len(KeptRows) : \A m \in 0..1 : \A p \in 0..41 :
              At(rbm.data, 42 * m + p, i - 1)
                  = samples.items[KeptRows[i] + 1][m + 1].val[p + 1].val
        /\ rbm.time.some /\ Len(rbm.time.val) = rbm.data.ncols
        /\ \A i \in 1..Len(KeptRows) : rbm.time.val[i] = RInt(KeptRows[i])
        /\ rbm.sampling_frequency = Some(Rat(1, KeptRows[2] - KeptRows[1]))

\* C17 happens: of three rows the first has no M1 list, the other two are kept:
\* the times are 1 and 2
C17_Witness ==
    /\ samples.ctor = "record" /\ pc = "rbm"
    /\ Len(samples.items) = 3 /\ ~samples.items[1][1].some
    /\ KeptRows = <<1, 2>>
    /\ rbm.data.ncols = 2
    /\ rbm.time = Some(<<RInt(1), RInt(2)>>)
    /\ \E p \in 0..83 : At(rbm.data, p, 0) # At(rbm.data, p, 1)

----------------------------------------------------------------------------
(* OpticalMetrics and Stats of TipTilt, SegmentTipTilt and SegmentPiston *)

Metric(kind, buf) == [kind |-> kind, buf |-> buf]

NItem(m) ==
    CASE m.kind = "TipTilt" -> NTipTilt
      [] m.kind = "SegmentTipTilt" -> NSegmentTipTilt
      [] m.kind = "SegmentPiston" -> NSegmentPiston

\* self.iter().skip(i).step_by(n_item).skip(n_total - n): the last n values of item i
LastOf(m, i, n_total, n) == Skip(StepBy(Skip(m.buf, i), NItem(m)), n_total - n)
\* the same without the guard on n: usize n_total - n wraps (release build) and
\* skip() then leaves nothing
LastOfWrapping(m, i, n_total, n) ==
    IF n > n_total THEN <<>> ELSE Skip(StepBy(Skip(m.buf, i), NItem(m)), n_total - n)

\* mean without the assertion
MeanUnguarded(m, n_sample) ==
    LET n_item == NItem(m)
        n_total == Len(m.buf) \div n_item
        n == UnwrapOr(n_sample, n_total)
    IN  Ok([i \in 1..n_item |-> RDivInt(RInt(Sum(LastOfWrapping(m, i - 1, n_total, n))), n)])

\* mean over the first n samples: take(n) in place of skip(n_total - n)
MeanLeading(m, n_sample) ==
    LET n_item == NItem(m)
        n_total == Len(m.buf) \div n_item
        n == UnwrapOr(n_sample, n_total)
    IN  IF ~(n_total >= n) THEN Panic("not enough samples")
        ELSE Ok([i \in 1..n_item |->
                RDivInt(RInt(Sum(Take(StepBy(Skip(m.buf, i - 1), n_item), n))), n)])

\* Stats::mean
Mean(m, n_sample) ==
    LET n_item == NItem(m)
        n_total == Len(m.buf) \div n_item
        n == UnwrapOr(n_sample, n_total)
    IN  IF ~(n_total >= n) THEN Panic("not enough samples")
        ELSE Ok([i \in 1..n_item |-> RDivInt(RInt(Sum(LastOf(m, i - 1, n_total, n))), n)])

\* the sample variance: a division by n - 1
VarSample(m, n_sample) ==
    LET n_item == NItem(m)
        n_total == Len(m.buf) \div n_item
        n == UnwrapOr(n_sample, n_total)
    IN  IF ~(n_total >= n) THEN Panic("not enough samples")
        ELSE LET mean == Mean(m, n_sample)
             IN  IF ~mean.ok THEN mean
                 ELSE Ok([i \in 1..n_item |->
                        LET x == LastOf(m, i - 1, n_total, n)
                            d == [t \in 1..Len(x) |-> RSub(RInt(x[t]), mean.val[i])]
                        IN  RDivInt(SumSquaresUpTo(d, Len(d)), n - 1)])

\* Stats::var: (0..n_item).zip(self.mean(n_sample)), then the squares of the
\* deviations from that mean, summed and divided by n
Var(m, n_sample) ==
    LET n_item == NItem(m)
        n_total == Len(m.buf) \div n_item
        n == UnwrapOr(n_sample, n_total)
    IN  IF ~(n_total >= n) THEN Panic("not enough samples")
        ELSE LET mean == Mean(m, n_sample)
             IN  IF ~mean.ok THEN mean
                 ELSE Ok([i \in 1..n_item |->
                        LET x == LastOf(m, i - 1, n_total, n)
                            d == [t \in 1..Len(x) |-> RSub(RInt(x[t]), mean.val[i])]
                        IN  RDivInt(SumSquaresUpTo(d, Len(d)), n)])

\* Stats::std: the square roots of var
Std(m, n_sample) ==
    LET var == Var(m, n_sample)
    IN  IF ~var.ok THEN var ELSE Ok([i \in 1..Len(var.val) |-> Sqrt(var.val[i])])

\* the last n samples in the order they are stored: no regrouping by item
TimeWiseStored(m, n_sample) ==
    LET n_item == NItem(m)
        n_total == Len(m.buf) \div n_item
        n == UnwrapOr(n_sample, n_total)
    IN  IF ~(n_total >= n) THEN Panic("not enough samples")
        ELSE Ok(Skip(m.buf, (n_total - n) * n_item))

\* OpticalMetrics::time_wise (the same body for the three metrics)
TimeWise(m, n_sample) ==
    LET n_item == NItem(m)
        n_total == Len(m.buf) \div n_item
        n == UnwrapOr(n_sample, n_total)
    IN  IF ~(n_total >= n) THEN Panic("not enough samples")
        ELSE Ok(Flatten([i \in 1..n_item |-> LastOf(m, i - 1, n_total, n)]))

----------------------------------------------------------------------------
(* The calls on an optical metric *)

\* value p (0-based) of the buffer of a metric
MetricVal(seed, p) ==
    IF seed = 0 THEN 0 ELSE ((seed * p * p + 3 * p + (p \div 4) + seed) % 7) - 3

Metrics ==
    {Metric(kind, [p \in 1..(n * NItem([kind |-> kind])) |-> MetricVal(seed, p - 1)]) :
        kind \in {"TipTilt", "SegmentTipTilt", "SegmentPiston"},
        n \in 0..MaxSamples, seed \in 0..MaxMetricSeed}

\* n_sample: None, or Some(w) up to two more than the samples there can be
Windows == {None} \cup {Some(w) : w \in 0..(MaxSamples + 2)}

Res(op, n_sample, r) ==
    [op |-> op, n_sample |-> n_sample, ok |-> r.ok, val |-> r.val, err |-> r.err]

CallMean ==
    \E w \in Windows :
        /\ pc = "stats"
        /\ res' = Res("mean", w, Mean(metric, w))
        /\ pc' = IF res'.ok THEN pc ELSE "panicked"
        /\ UNCHANGED <<samples, builder, sens, rbm, out, metric, env, remote, task>>

CallVar ==
    \E w \in Windows :
        /\ pc = "stats"
        /\ res' = Res("var", w, Var(metric, w))
        /\ pc' = IF res'.ok THEN pc ELSE "panicked"
        /\ UNCHANGED <<samples, builder, sens, rbm, out, metric, env, remote, task>>

CallStd ==
    \E w \in Windows :
        /\ pc = "stats"
        /\ res' = Res("std", w, Std(metric, w))
        /\ pc' = IF res'.ok THEN pc ELSE "panicked"
        /\ UNCHANGED <<samples, builder, sens, rbm, out, metric, env, remote, task>>

CallTimeWise ==
    \E w \in Windows :
        /\ pc = "stats"
        /\ res' = Res("time_wise", w, TimeWise(metric, w))
        /\ pc' = IF res'.ok THEN pc ELSE "panicked"
        /\ UNCHANGED <<samples, builder, sens, rbm, out, metric, env, remote, task>>

InitStats ==
    /\ pc = "stats"
    /\ metric \in Metrics
    /\ res = NoRes
    /\ remote = NoRemote
    /\ task = NoTask
    /\ samples = NoIter
    /\ builder = NoBuilder
    /\ sens = <<>>
    /\ rbm = NoRbm
    /\ out = NoOut
    /\ env = NoEnv

NextStats ==
    \/ CallMean
    \/ CallVar
    \/ CallStd
    \/ CallTimeWise

SpecStats == InitStats /\ [][NextStats]_vars

----------------------------------------------------------------------------
(* Properties of the statistics *)

\* the items of the metric and the samples it holds
Channels ==
    IF metric.kind = "TipTilt" THEN 2 ELSE IF metric.kind = "SegmentTipTilt" THEN 14 ELSE 7
Held == Len(metric.buf) \div Channels
\* item i (0-based) of sample k (0-based)
Sample(k, i) == metric.buf[k * Channels + i + 1]
\* over the last w samples: the sum of item i, and the sum of its squares
TrailingSum(i, w) == Sum([t \in 1..w |-> Sample(Held - w + t - 1, i)])
TrailingSquares(i, w) ==
    Sum([t \in 1..w |-> Sample(Held - w + t - 1, i) * Sample(Held - w + t - 1, i)])
StatsOps == {"mean", "var", "std", "time_wise"}

\* C6: mean, var, std and time_wise with a window Some(w), w more than the samples
\* held, fail on the assertion "not enough samples" and return no value.
C6_WindowTooLargeFails ==
    (res.op \in StatsOps /\ res.n_sample.some /\ res.n_sample.val > Held) =>
        /\ ~res.ok
        /\ res.err = "not enough samples"
        /\ res.val = <<>>
        /\ pc = "panicked"

\* C6 happens: mean(Some(5)) on a series of 3 samples
C6_Witness ==
    /\ res.op = "mean" /\ res.n_sample = Some(5)
    /\ Held = 3
    /\ ~res.ok

\* C7: mean(Some(w)), 1 <= w <= n_total, returns n_item values, value i being the
\* sum of buffer[k*n_item + i] over the last w samples k, divided by w.
C7_MeanTrailingWindow ==
    (/\ res.op = "mean" /\ res.n_sample.some
     /\ 1 <= res.n_sample.val /\ res.n_sample.val <= Held) =>
        LET w == res.n_sample.val
        IN  /\ res.ok
            /\ Len(res.val) = Channels
            /\ \A i \in 0..(Channels - 1) :
                  /\ res.val[i + 1].den > 0
                  /\ res.val[i + 1].num * w = TrailingSum(i, w) * res.val[i + 1].den

\* C7 happens: a mean over the last 2 of 3 samples that is not the mean over
\* the first 2
C7_Witness ==
    /\ res.op = "mean" /\ res.n_sample = Some(2) /\ res.ok
    /\ Held = 3
    /\ \E i \in 0..(Channels - 1) :
          Sample(0, i) + Sample(1, i) # Sample(1, i) + Sample(2, i)

\* C8: time_wise(Some(w)), w <= n_total, returns n_item*w values, element i*w + t
\* being buffer[(n_total - w + t)*n_item + i]: the last w samples of item 0 in
\* time order, then those of item 1, and so on.
C8_TimeWiseLayout ==
    (res.op = "time_wise" /\ res.n_sample.some /\ res.n_sample.val <= Held) =>
        LET w == res.n_sample.val
        IN  /\ res.ok
            /\ Len(res.val) = Channels * w
            /\ \A i \in 0..(Channels - 1) : \A t \in 0..(w - 1) :
                  res.val[i * w + t + 1] = Sample(Held - w + t, i)

\* C8 happens: 2 items of 3 samples, [c0s0,c1s0,c0s1,c1s1,c0s2,c1s2], come out
\* as [c0s0,c0s1,c0s2,c1s0,c1s1,c1s2], which is another order
C8_Witness ==
    /\ res.op = "time_wise" /\ res.n_sample = Some(3) /\ res.ok
    /\ metric.kind = "TipTilt" /\ Len(metric.buf) = 6
    /\ res.val = <<metric.buf[1], metric.buf[3], metric.buf[5],
                   metric.buf[2], metric.buf[4], metric.buf[6]>>
    /\ res.val # metric.buf

\* C9: var(Some(w)) is, for each item i, the sum over the last w samples of
\* (x - m_i)^2 divided by w (not w - 1), m_i being the value mean(Some(w))
\* returns for item i: the population variance (w * sum x^2 - (sum x)^2) / w^2.
C9_VarPopulationTwoPass ==
    (/\ res.op = "var" /\ res.n_sample.some
     /\ 1 <= res.n_sample.val /\ res.n_sample.val <= Held) =>
        LET w == res.n_sample.val
            m == Mean(metric, res.n_sample)
        IN  /\ res.ok /\ m.ok
            /\ Len(res.val) = Channels
            /\ \A i \in 0..(Channels - 1) :
                  LET d == [t \in 1..w |-> RSub(RInt(Sample(Held - w + t - 1, i)), m.val[i + 1])]
                  IN  /\ res.val[i + 1] = RDivInt(SumSquaresUpTo(d, w), w)
                      /\ res.val[i + 1].den > 0
                      /\ res.val[i + 1].num * w * w
                            = (w * TrailingSquares(i, w) - TrailingSum(i, w) * TrailingSum(i, w))
                                * res.val[i + 1].den

\* C9 happens: a variance over the last 2 of 3 samples that is not zero
C9_Witness ==
    /\ res.op = "var" /\ res.n_sample = Some(2) /\ res.ok
    /\ Held = 3
    /\ \E i \in 1..Channels : res.val[i].num # 0

\* C10: var(None) is var(Some(N)), N the samples held, element for element; and
\* so for mean, std and time_wise.
C10_NoneIsWholeSeries ==
    (res.op \in StatsOps /\ ~res.n_sample.some) =>
        LET whole == Some(Held)
            r == CASE res.op = "mean" -> Mean(metric, whole)
                   [] res.op = "var" -> Var(metric, whole)
                   [] res.op = "std" -> Std(metric, whole)
                   [] res.op = "time_wise" -> TimeWise(metric, whole)
        IN  res.ok /\ r.ok /\ Len(res.val) = Channels * (IF res.op = "time_wise" THEN Held ELSE 1)
            /\ \A i \in 1..Len(res.val) : res.val[i] = r.val[i]
            /\ Len(r.val) = Len(res.val)

\* C10 happens: var(None) of 3 samples, not zero
C10_Witness ==
    /\ res.op = "var" /\ ~res.n_sample.some /\ res.ok
    /\ Held = 3
    /\ \E i \in 1..Channels : res.val[i].num # 0

----------------------------------------------------------------------------
(* LOM: the other transforms, the time vector and the items of a metric *)

\* skyangle's Conversion::to_mas, radians to milliarcseconds, kept symbolic
ToMas(x) == [mas |-> x]

\* into_iter().map(|x| x.to_mas()).collect() on the result of a transform
MapToMas(r) == IF r.ok THEN Ok([i \in 1..Len(r.val) |-> ToMas(r.val[i])]) ELSE r
TiptiltMas(store, r) == MapToMas(Transform(store, r, "TipTilt"))
SegmentTiptiltMas(store, r) == MapToMas(Transform(store, r, "SegmentTipTilt"))

\* the number of true entries among the first i of a mask
Rank(mask, i) == Cardinality({j \in 1..i : mask[j]})

\* the masked values at the head of the buffer, zeros after them
WavefrontPacked(store, r) ==
    LET w == Transform(store, r, "Wavefront")
        m == Index(store, Sens("PupilMask", <<>>))
    IN  IF ~w.ok THEN w
        ELSE IF ~m.ok THEN m
        ELSE LET mask == m.val.val
             IN  Ok([i \in 1..Len(mask) |->
                        IF i <= Rank(mask, Len(mask)) THEN w.val[i] ELSE 0])

\* the values of the last time sample in place of the first values
WavefrontLastSample(store, r) ==
    LET w == Transform(store, r, "Wavefront")
        m == Index(store, Sens("PupilMask", <<>>))
    IN  IF ~w.ok THEN w
        ELSE IF ~m.ok THEN m
        ELSE LET mask == m.val.val
                 P == Rank(mask, Len(mask))
             IN  IF P > Len(w.val)
                 THEN Panic("called Option::unwrap on a None value")
                 ELSE Ok([i \in 1..Len(mask) |->
                            IF mask[i] THEN w.val[Len(w.val) - P + Rank(mask, i)] ELSE 0])

\* LOM::wavefront: for each entry of PupilMask, the next value of the masked
\* wavefront (wavefront.next().unwrap()) where it is true, 0 where it is false
Wavefront(store, r) ==
    LET w == Transform(store, r, "Wavefront")
        m == Index(store, Sens("PupilMask", <<>>))
    IN  IF ~w.ok THEN w
        ELSE IF ~m.ok THEN m
        ELSE LET mask == m.val.val
             IN  IF Rank(mask, Len(mask)) > Len(w.val)
                 THEN Panic("called Option::unwrap on a None value")
                 ELSE Ok([i \in 1..Len(mask) |->
                            IF mask[i] THEN w.val[Rank(mask, i)] ELSE 0])

\* wfe_rms *= 10f64.powi(-E), kept symbolic
TimesPow10(x, e) == [x |-> x, pow10 |-> e]

\* the RMS over the whole pupil: the divisor is the number of points
SegmentWfeRmsPupil(store, r, E) ==
    LET w == MaskedWavefront(store, r)
        m == Index(store, Sens("SegmentMask", <<>>))
    IN  IF ~w.ok THEN w
        ELSE IF ~m.ok THEN m
        ELSE LET mask == m.val.val
                 zipped == Min(Len(w.val), Len(mask))
             IN  Ok([sid \in 1..7 |->
                    LET hits == SelectSeq([i \in 1..zipped |-> i], LAMBDA i : mask[i] = sid)
                        sq == Sum([j \in 1..Len(hits) |-> w.val[hits[j]] * w.val[hits[j]]])
                        wfe_rms == Sqrt(Rat(sq, Len(mask)))
                    IN  IF E # 0 THEN TimesPow10(wfe_rms, -E) ELSE wfe_rms])

\* the divisor is the number of values of the segment: 0 for a segment without
SegmentWfeRmsCount(store, r, E) ==
    LET w == MaskedWavefront(store, r)
        m == Index(store, Sens("SegmentMask", <<>>))
    IN  IF ~w.ok THEN w
        ELSE IF ~m.ok THEN m
        ELSE LET mask == m.val.val
                 zipped == Min(Len(w.val), Len(mask))
             IN  Ok([sid \in 1..7 |->
                    LET hits == SelectSeq([i \in 1..zipped |-> i], LAMBDA i : mask[i] = sid)
                        sq == Sum([j \in 1..Len(hits) |-> w.val[hits[j]] * w.val[hits[j]]])
                        wfe_rms == Sqrt(Rat(sq, Len(hits)))
                    IN  IF E # 0 THEN TimesPow10(wfe_rms, -E) ELSE wfe_rms])

\* LOM::segment_wfe_rms::<E>: for each sid in 1..=7, the masked wavefront (a new
\* iterator at each pass) zipped with the mask, the values of the segment
\* enumerated and folded into (last index, sum of squares); n = last index + 1
SegmentWfeRms(store, r, E) ==
    LET w == MaskedWavefront(store, r)
        m == Index(store, Sens("SegmentMask", <<>>))
    IN  IF ~w.ok THEN w
        ELSE IF ~m.ok THEN m
        ELSE LET mask == m.val.val
                 zipped == Min(Len(w.val), Len(mask))
             IN  Ok([sid \in 1..7 |->
                    LET hits == SelectSeq([i \in 1..zipped |-> i], LAMBDA i : mask[i] = sid)
                        sq == Sum([j \in 1..Len(hits) |-> w.val[hits[j]] * w.val[hits[j]]])
                        i == IF Len(hits) = 0 THEN 0 ELSE Len(hits) - 1
                        wfe_rms == Sqrt(Rat(sq, i + 1))
                    IN  IF E # 0 THEN TimesPow10(wfe_rms, -E) ELSE wfe_rms])

\* slice::windows(n): every run of n values
SlidingWindows(buf, n) ==
    IF Len(buf) < n THEN <<>> ELSE [c \in 1..(Len(buf) - n + 1) |-> SubSeq(buf, c, c + n - 1)]
\* slice::chunks(n): runs of n values, the last one shorter when n does not divide
Chunks(buf, n) ==
    [c \in 1..((Len(buf) + n - 1) \div n) |-> SubSeq(buf, (c - 1) * n + 1, Min(c * n, Len(buf)))]
\* OpticalMetrics::items
Items(m) == Chunks(m.buf, NItem(m))

\* the metric a transform returns
MetricOf(op) ==
    CASE op \in {"tiptilt", "tiptilt_mas"} -> "TipTilt"
      [] op \in {"segment_tiptilt", "segment_tiptilt_mas"} -> "SegmentTipTilt"
      [] op = "segment_piston" -> "SegmentPiston"

CallTiptiltMas ==
    /\ pc = "lom"
    /\ Return("tiptilt_mas", TiptiltMas(sens, rbm))
    /\ UNCHANGED <<samples, builder, sens, rbm, metric, res, env, remote, task>>

CallSegmentTiptiltMas ==
    /\ pc = "lom"
    /\ Return("segment_tiptilt_mas", SegmentTiptiltMas(sens, rbm))
    /\ UNCHANGED <<samples, builder, sens, rbm, metric, res, env, remote, task>>

CallWavefront ==
    /\ pc = "lom"
    /\ Return("wavefront", Wavefront(sens, rbm))
    /\ UNCHANGED <<samples, builder, sens, rbm, metric, res, env, remote, task>>

CallSegmentWfeRms ==
    \* the const parameter E of segment_wfe_rms
    \E E \in {0, -9, 3} :
        LET r == SegmentWfeRms(sens, rbm, E)
        IN  /\ pc = "lom"
            /\ out' = OutKey("segment_wfe_rms", E, r)
            /\ pc' = IF r.ok THEN pc ELSE "panicked"
            /\ UNCHANGED <<samples, builder, sens, rbm, metric, res, env, remote, task>>

\* LOM::time: self.rbm.time()
CallTime ==
    /\ pc = "lom"
    /\ Return("time", Ok(Time(rbm)))
    /\ UNCHANGED <<samples, builder, sens, rbm, metric, res, env, remote, task>>

\* items() on the metric the last call returned
CallItems ==
    /\ pc = "lom"
    /\ out.op \in {"tiptilt", "tiptilt_mas", "segment_tiptilt", "segment_tiptilt_mas",
                  "segment_piston"}
    /\ out.ok
    /\ LET m == Metric(MetricOf(out.op), out.val)
       IN  out' = [op |-> "items", of |-> out.op, key |-> m,
                   ok |-> TRUE, val |-> Items(m), err |-> ""]
    /\ UNCHANGED <<pc, samples, builder, sens, rbm, metric, res, env, remote, task>>

\* a LOM whose store is as computed or has one variant missing, on the default
\* motions or on samples of MaxSeed values
InitTransforms ==
    /\ pc = "lom"
    /\ samples \in {NoIter} \cup
          {Iter("nested", MaxSeed, lens) :
              lens \in UNION {[1..n -> WellFormedLens \X WellFormedLens] : n \in 1..MaxCols}}
    /\ \/ sens \in {Store(mask) : mask \in {m \in Masks : Len(m.pupil) > Len(m.seg) /\ m.pupil[1]}}
       \/ sens \in PartialStores /\ samples # NoIter /\ Len(samples.items) = MaxCols
    /\ rbm = IF samples = NoIter THEN RbmDefault ELSE FromIter(samples).val
    /\ builder = NoBuilder
    /\ out = NoOut
    /\ metric = NoMetric
    /\ res = NoRes
    /\ remote = NoRemote
    /\ task = NoTask
    /\ env = NoEnv

NextTransforms ==
    \/ Next
    \/ CallTiptiltMas
    \/ CallSegmentTiptiltMas
    \/ CallWavefront
    \/ CallSegmentWfeRms
    \/ CallTime
    \/ CallItems

SpecTransforms == InitTransforms /\ [][NextTransforms]_vars

----------------------------------------------------------------------------
(* Properties of the other transforms *)

\* the variants a transform looks up in the store
Needs(op) ==
    CASE op \in {"tiptilt", "tiptilt_mas"} -> {"TipTilt"}
      [] op \in {"segment_tiptilt", "segment_tiptilt_mas"} -> {"SegmentTipTilt"}
      [] op = "segment_piston" -> {"SegmentPiston"}
      [] op = "masked_wavefront" -> {"Wavefront"}
      [] op = "wavefront" -> {"Wavefront", "PupilMask"}
      [] op \in {"segment_wavefront", "segment_wfe_rms"} -> {"Wavefront", "SegmentMask"}
      [] OTHER -> {}
Has(variants) == \A v \in variants : Holding(v) # {}

\* C12: a transform on a store that holds no element of a variant it needs
\* panics on the lookup and returns no value; nothing is computed from another
\* variant, and nothing is called after the panic.
C12_MissingVariantPanics ==
    (Needs(out.op) # {} /\ ~Has(Needs(out.op))) =>
        /\ ~out.ok
        /\ out.val = <<>>
        /\ out.err = "cannot find optical sensitivity"
        /\ pc = "panicked"

\* C12 happens: wavefront() on a store that has the wavefront sensitivity and no
\* pupil mask
C12_Witness ==
    /\ out.op = "wavefront" /\ ~out.ok
    /\ Has({"Wavefront"}) /\ ~Has({"PupilMask"})
    /\ rbm.data.ncols = MaxCols

\* value j (0-based) of the masked wavefront of the motions
MaskedValue(j) ==
    Dot(Payload("Wavefront"), PupilPoints, j % PupilPoints, j \div PupilPoints)

SegmentPoints(sid) ==
    {j \in 0..(Len(Payload("SegmentMask")) - 1) : Payload("SegmentMask")[j + 1] = sid}
RECURSIVE SumSquaresOver(_)
SumSquaresOver(points) ==
    IF points = {} THEN 0
    ELSE LET j == CHOOSE j \in points : TRUE
         IN  MaskedValue(j) * MaskedValue(j) + SumSquaresOver(points \ {j})

\* C14: on motions of one time sample segment_wfe_rms::<E>() returns 7 values;
\* for a segment s that has points, value s-1 is the square root of the sum of
\* w^2 over the points of the segment divided by their number, times 10^(-E)
\* when E is not 0.
C14_SegmentWfeRms ==
    (/\ out.op = "segment_wfe_rms" /\ Has({"Wavefront", "SegmentMask"})
     /\ rbm.data.ncols = 1) =>
        /\ out.ok
        /\ Len(out.val) = 7
        /\ \A sid \in 1..7 : SegmentPoints(sid) # {} =>
              LET E == out.key
                  c == Cardinality(SegmentPoints(sid))
                  root == IF E # 0 THEN out.val[sid].x ELSE out.val[sid]
              IN  /\ E # 0 => out.val[sid] = TimesPow10(root, -E)
                  /\ root = Sqrt(Rat(SumSquaresOver(SegmentPoints(sid)), c))
                  /\ root.sqrt.den > 0
                  /\ root.sqrt.num * c = SumSquaresOver(SegmentPoints(sid)) * root.sqrt.den

\* C14 happens: segment_wfe_rms::<-9>() with two points on segment 3 and one on
\* segment 1, the RMS on segment 3 not zero
C14_Witness ==
    /\ out.op = "segment_wfe_rms" /\ out.ok /\ out.key = -9
    /\ rbm.data.ncols = 1
    /\ Has({"SegmentMask"}) /\ Payload("SegmentMask") = <<3, 1, 3>>
    /\ out.val[3].x.sqrt.num # 0 /\ out.val[3].pow10 = 9
    /\ MaskedValue(0) # MaskedValue(2)

\* the step leaves the store and the motions as they were and returns r, the
\* result for the store and the motions as they are; a call that follows the
\* same call returns the same
Pure(op, r) ==
    /\ sens' = sens /\ rbm' = rbm
    /\ out'.op = op /\ [ok |-> out'.ok, val |-> out'.val, err |-> out'.err] = r
    /\ (out.op = op /\ (op = "segment_wfe_rms" => out.key = out'.key)) =>
          (out'.ok = out.ok /\ out'.val = out.val)

\* C19: every transform leaves the store and the motions unchanged and returns
\* the result computed from them as they are at the call: the same for two calls
\* in a row, and after zeroed_m1 or zeroed_m2 the result for the zeroed motions.
\* (A step is the return of the transform out'.op names.)
C19_TransformsPure ==
    [][ /\ out'.op = "tiptilt" => Pure("tiptilt", Tiptilt(sens', rbm'))
        /\ out'.op = "tiptilt_mas" => Pure("tiptilt_mas", TiptiltMas(sens', rbm'))
        /\ out'.op = "segment_tiptilt" => Pure("segment_tiptilt", SegmentTiptilt(sens', rbm'))
        /\ out'.op = "segment_tiptilt_mas" =>
              Pure("segment_tiptilt_mas", SegmentTiptiltMas(sens', rbm'))
        /\ out'.op = "segment_piston" => Pure("segment_piston", SegmentPiston(sens', rbm'))
        /\ out'.op = "masked_wavefront" => Pure("masked_wavefront", MaskedWavefront(sens', rbm'))
        /\ out'.op = "wavefront" => Pure("wavefront", Wavefront(sens', rbm'))
        /\ out'.op = "segment_wavefront" => Pure("segment_wavefront", SegmentWavefront(sens', rbm'))
        /\ out'.op = "segment_wfe_rms" =>
              Pure("segment_wfe_rms", SegmentWfeRms(sens', rbm', out'.key))
      ]_vars

\* C19 happens: a tip-tilt computed after zeroed_m1, which is the tip-tilt of the
\* zeroed motions and not the one of the motions the LOM was built with
C19_Witness ==
    /\ out.op = "tiptilt" /\ out.ok
    /\ samples # NoIter /\ Len(samples.items) = 2
    /\ rbm = ZeroedM1(FromIter(samples).val)
    /\ out.val = Tiptilt(sens, rbm).val
    /\ out.val # Tiptilt(sens, FromIter(samples).val).val

\* C20: the buffers tiptilt, segment_tiptilt and segment_piston return for 84 x N
\* motions hold N times n_item values, n_item being 2, 14 and 7: items() gives N
\* chunks of n_item values, chunk k holding the channels of time sample k, and
\* gives them again when called again.
C20_ItemsPerSample ==
    out.op = "items" =>
        LET m == out.key
            n == NItem(m)
            N == rbm.data.ncols
        IN  /\ n = (CASE m.kind = "TipTilt" -> 2
                      [] m.kind = "SegmentTipTilt" -> 14
                      [] m.kind = "SegmentPiston" -> 7)
            /\ Len(m.buf) % n = 0
            /\ out.ok /\ Len(out.val) = N
            /\ \A k \in 0..(N - 1) :
                  /\ Len(out.val[k + 1]) = n
                  /\ \A r \in 0..(n - 1) :
                        /\ out.val[k + 1][r + 1] = m.buf[k * n + r + 1]
                        /\ out.of \in {"tiptilt", "segment_tiptilt", "segment_piston"} =>
                              out.val[k + 1][r + 1] = Dot(Payload(m.kind), n, r, k)
            /\ Items(m) = out.val

\* C20 happens: the items of the segment tip-tilt of two time samples: two chunks
\* of 14 values that differ
C20_Witness ==
    /\ out.op = "items" /\ out.ok
    /\ out.of = "segment_tiptilt" /\ out.key.buf = SegmentTiptilt(sens, rbm).val
    /\ Len(out.val) = 2 /\ Len(out.val[1]) = 14 /\ Len(out.val[2]) = 14
    /\ out.val[1] # out.val[2]

----------------------------------------------------------------------------
(* OpticalSensitivity: the blocks of a mirror and the conversions *)

\* slice::split_at(mid): the values before mid and the values from mid on
SplitAtOk(s, mid) == mid <= Len(s)
SplitAt(s, mid) == <<SubSeq(s, 1, mid), SubSeq(s, mid + 1, Len(s))>>

\* DMatrix::from_iterator(nrows, ncols, iter): the iterator is collected and must
\* give nrows * ncols values
FromIteratorOk(nrows, ncols, data) == Len(data) = nrows * ncols
FromIterator(nrows, ncols, data) == Matrix(nrows, ncols, data)

\* m1_wavefront: for Wavefront, n = len / N, the values from n*42 on, in chunks of
\* n, as an n x 42 matrix; an error for the other variants
M1Wavefront(s) ==
    IF s.variant # "Wavefront" THEN Err("SegmentTipTilt")
    ELSE LET n == Len(s.val) \div NDof
         IN  IF ~SplitAtOk(s.val, n * 42) THEN Panic("mid > len")
             ELSE IF n = 0 THEN Panic("chunk size must be non-zero")
             ELSE LET m1_tr == SplitAt(s.val, n * 42)[2]
                      data == Flatten(Chunks(m1_tr, n))
                  IN  IF ~FromIteratorOk(n, 42, data)
                      THEN Panic("Allocation from iterator error")
                      ELSE Ok(FromIterator(n, 42, data))

\* the chunks of the translations: chunks(14 * 3).step_by(2), without skip(1)
M2Txy(s) ==
    IF s.variant # "SegmentTipTilt" THEN Err("SegmentTipTilt")
    ELSE IF ~SplitAtOk(s.val, 14 * 42) THEN Panic("mid > len")
    ELSE LET m2_tr == SplitAt(s.val, 14 * 42)[2]
             picked == StepBy(Chunks(m2_tr, 14 * 3), 2)
         IN  IF \E c \in 1..Len(picked) : Len(picked[c]) < 14 * 2
             THEN Panic("range end index out of range")
             ELSE LET data == Flatten([c \in 1..Len(picked) |-> Take(picked[c], 14 * 2)])
                  IN  IF ~FromIteratorOk(14, 14, data)
                      THEN Panic("Allocation from iterator error")
                      ELSE Ok(FromIterator(14, 14, data))

\* m2_rxy: for SegmentTipTilt, the values from 14*42 on, in chunks of 14*3 (three
\* columns), every second chunk from the second on, the first 14*2 values of each,
\* as a 14 x 14 matrix; an error for the other variants
M2Rxy(s) ==
    IF s.variant # "SegmentTipTilt" THEN Err("SegmentTipTilt")
    ELSE IF ~SplitAtOk(s.val, 14 * 42) THEN Panic("mid > len")
    ELSE LET m2_tr == SplitAt(s.val, 14 * 42)[2]
             picked == StepBy(Skip(Chunks(m2_tr, 14 * 3), 1), 2)
         IN  IF \E c \in 1..Len(picked) : Len(picked[c]) < 14 * 2
             THEN Panic("range end index out of range")
             ELSE LET data == Flatten([c \in 1..Len(picked) |-> Take(picked[c], 14 * 2)])
                  IN  IF ~FromIteratorOk(14, 14, data)
                      THEN Panic("Allocation from iterator error")
                      ELSE Ok(FromIterator(14, 14, data))

\* From<&OpticalSensitivity<N>> for DMatrix<f64>: from_column_slice for the four
\* sensitivities, None.unwrap() for the masks
IntoDMatrix(s) ==
    IF s.variant \notin {"Wavefront", "TipTilt", "SegmentTipTilt", "SegmentPiston"}
    THEN Panic("called Option::unwrap on a None value")
    ELSE IF ~FromVecOk(SensRows(s), NDof, s.val)
    THEN Panic("Matrix init. error: the slice did not contain the right number of elements.")
    ELSE Ok(FromColumnSlice(SensRows(s), NDof, s.val))

\* a conversion that gives the payload of every variant
IntoSliceAny(s) == Ok(s.val)
\* From<&OpticalSensitivity> for &[f64]: the payload of the four sensitivities,
\* None.unwrap() for the masks
IntoSlice(s) ==
    IF s.variant \notin {"Wavefront", "TipTilt", "SegmentTipTilt", "SegmentPiston"}
    THEN Panic("called Option::unwrap on a None value")
    ELSE Ok(s.val)

\* a call on element i of the store: a value or an Err is returned, a panic ends
\* the program
ReturnOf(op, i, r) ==
    /\ out' = OutKey(op, sens[i], r)
    /\ pc' = IF r.ok \/ r.err = "SegmentTipTilt" THEN pc ELSE "panicked"

CallM1Wavefront ==
    \E i \in 1..Len(sens) :
        /\ pc = "sens"
        /\ ReturnOf("m1_wavefront", i, M1Wavefront(sens[i]))
        /\ UNCHANGED <<samples, builder, sens, rbm, metric, res, env, remote, task>>

CallM2Rxy ==
    \E i \in 1..Len(sens) :
        /\ pc = "sens"
        /\ ReturnOf("m2_rxy", i, M2Rxy(sens[i]))
        /\ UNCHANGED <<samples, builder, sens, rbm, metric, res, env, remote, task>>

CallIntoOptics ==
    \E i \in 1..Len(sens) :
        /\ pc = "sens"
        /\ ReturnOf("into_optics", i, IntoOptics(sens[i], rbm.data))
        /\ UNCHANGED <<samples, builder, sens, rbm, metric, res, env, remote, task>>

CallIntoDMatrix ==
    \E i \in 1..Len(sens) :
        /\ pc = "sens"
        /\ ReturnOf("into_dmatrix", i, IntoDMatrix(sens[i]))
        /\ UNCHANGED <<samples, builder, sens, rbm, metric, res, env, remote, task>>

CallIntoSlice ==
    \E i \in 1..Len(sens) :
        /\ pc = "sens"
        /\ ReturnOf("into_slice", i, IntoSlice(sens[i]))
        /\ UNCHANGED <<samples, builder, sens, rbm, metric, res, env, remote, task>>

\* a store, and the motions the sensitivities are applied to
InitSens ==
    /\ pc = "sens"
    /\ sens \in AnyStores
    /\ samples \in {NoIter, Iter("flat", MaxSeed, <<<<NM1, NM1>>>>)}
    /\ rbm = IF samples = NoIter THEN RbmDefault ELSE FromIter(samples).val
    /\ builder = NoBuilder
    /\ out = NoOut
    /\ metric = NoMetric
    /\ res = NoRes
    /\ env = NoEnv
    /\ remote = NoRemote
    /\ task = NoTask

NextSens ==
    \/ CallM1Wavefront
    \/ CallM2Rxy
    \/ CallIntoOptics
    \/ CallIntoDMatrix
    \/ CallIntoSlice

SpecSens == InitSens /\ [][NextSens]_vars

\* column c (0-based) of a column-major payload of `rows` rows
Column(payload, rows, c) == SubSeq(payload, c * rows + 1, (c + 1) * rows)
MatrixColumn(m, c) == Column(m.data, m.nrows, c)

\* C21: m1_wavefront() of a Wavefront variant of n x 84 values returns the n x 42
\* matrix of the M1 columns: entry (r, c) is sens[c*n + r] for c in 0..41, the
\* columns 0..41 and not the M2 columns 42..83; for another variant it returns
\* an error.
C21_M1WavefrontColumns ==
    out.op = "m1_wavefront" =>
        IF out.key.variant = "Wavefront"
        THEN LET n == Len(out.key.val) \div 84
             IN  /\ out.ok
                 /\ out.val.nrows = n /\ out.val.ncols = 42
                 /\ \A r \in 0..(n - 1) : \A c \in 0..41 :
                       At(out.val, r, c) = out.key.val[c * n + r + 1]
        ELSE ~out.ok /\ out.err = "SegmentTipTilt" /\ pc = "sens"

\* C22: m2_rxy() of a SegmentTipTilt variant of 14 x 84 values returns a 14 x 14
\* matrix whose column 2*s + c, for the segment s in 0..6 and c in {0, 1}, is
\* column 42 + 6*s + 3 + c of the sensitivity; for another variant it returns an
\* error.
C22_M2RxyColumns ==
    out.op = "m2_rxy" =>
        IF out.key.variant = "SegmentTipTilt"
        THEN /\ out.ok
             /\ out.val.nrows = 14 /\ out.val.ncols = 14 /\ Len(out.val.data) = 196
             /\ \A sg \in 0..6 : \A c \in 0..1 :
                   MatrixColumn(out.val, 2 * sg + c)
                       = Column(out.key.val, 14, 42 + 6 * sg + 3 + c)
        ELSE ~out.ok /\ out.err = "SegmentTipTilt" /\ pc = "sens"

\* C22 happens: the matrix of a SegmentTipTilt sensitivity whose M2 rotation
\* columns are not its M2 translation columns, and not its M1 rotation columns
C22_Witness ==
    /\ out.op = "m2_rxy" /\ out.ok
    /\ out.key.variant = "SegmentTipTilt"
    /\ MatrixColumn(out.val, 0) = Column(out.key.val, 14, 45)
    /\ MatrixColumn(out.val, 0) # Column(out.key.val, 14, 42)
    /\ MatrixColumn(out.val, 0) # Column(out.key.val, 14, 3)
    /\ MatrixColumn(out.val, 13) = Column(out.key.val, 14, 82)
    /\ MatrixColumn(out.val, 13) # Column(out.key.val, 14, 83)

\* the conversions of an OpticalSensitivity
Conversions == {"into_optics", "into_dmatrix", "into_slice"}

\* C26: into_optics, the conversion to a dense matrix and the conversion to a
\* slice of floats, applied to a SegmentMask or a PupilMask, panic and return no
\* value; a result is returned only for Wavefront, TipTilt, SegmentTipTilt and
\* SegmentPiston: the product with the motions, the rows x 84 matrix, the payload.
C26_MaskConversionsPanic ==
    out.op \in Conversions =>
        /\ out.key.variant \in {"SegmentMask", "PupilMask"} =>
              /\ ~out.ok /\ out.val = <<>>
              /\ out.err \in {"not implemented", "called Option::unwrap on a None value"}
              /\ pc = "panicked"
        /\ out.ok <=> out.key.variant \in {"Wavefront", "TipTilt", "SegmentTipTilt", "SegmentPiston"}
        /\ (out.ok /\ out.op = "into_slice") => out.val = out.key.val
        /\ (out.ok /\ out.op = "into_dmatrix") =>
              /\ out.val.ncols = 84 /\ out.val.nrows * 84 = Len(out.key.val)
              /\ out.val.data = out.key.val
        /\ (out.ok /\ out.op = "into_optics") =>
              Len(out.val) * 84 = Len(out.key.val) * rbm.data.ncols

\* C26 happens: the conversion to a slice of a pupil mask that has values
C26_Witness ==
    /\ out.op = "into_slice" /\ ~out.ok /\ pc = "panicked"
    /\ out.key.variant = "PupilMask" /\ Len(out.key.val) > 0

----------------------------------------------------------------------------
(* The actor interface of a LOM: Read of the M1 and M2 motions, Write of the metrics *)

\* column_mut(0): panics on a matrix that has no column
ColumnMutOk(m, j) == j < m.ncols

\* column_mut(0).iter_mut().skip(skip).take(take).zip(data): the entries of
\* column 0 from `skip` on, at most `take` of them and no more than the payload
\* has values; for_each(|(rbm, val)| *rbm = *val)
ZipAssign(m, skip, take, data) ==
    LET n == Min(Min(take, IF skip >= m.nrows THEN 0 ELSE m.nrows - skip), Len(data))
    IN  Matrix(m.nrows, m.ncols,
               [idx \in 1..Len(m.data) |->
                   IF idx > skip /\ idx <= skip + n THEN data[idx - skip] ELSE m.data[idx]])

\* Read<M1RigidBodyMotions>: column_mut(0).iter_mut().take(42).zip(&**data)
ReadM1(r, data) == [r EXCEPT !.data = ZipAssign(r.data, 0, 42, data)]
\* skip(41) in place of skip(42): the last M1 entry is written too
ReadM2Overlapping(r, data) ==
    [r EXCEPT !.data = ZipAssign(r.data, 41, r.data.nrows, data)]
\* Read<M2RigidBodyMotions>: column_mut(0).iter_mut().skip(42).zip(&**data)
ReadM2(r, data) == [r EXCEPT !.data = ZipAssign(r.data, 42, r.data.nrows, data)]

\* the payloads of a mirror (0: M1, 1: M2): none, 2, 42 and 43 values
ActorPayloads(m) ==
    {FlatMirror(2, 3 + m, m, len) : len \in {0, 2}}
        \cup {FlatMirror(2, 5 + m, m, len) : len \in {NM1, NM1 + 1}}

\* the payloads read last: [ctor |-> "read", items |-> <<M1, M2>>]
LastRead(m1, m2) == [ctor |-> "read", items |-> <<m1, m2>>]

CallReadM1 ==
    \E data \in ActorPayloads(0) :
        /\ pc = "actor"
        /\ IF ColumnMutOk(rbm.data, 0)
           THEN /\ rbm' = ReadM1(rbm, data)
                /\ samples' = LastRead(Some(data), samples.items[2])
                /\ out' = OutKey("read_m1", data, Ok(<<>>))
                /\ pc' = pc
           ELSE /\ out' = OutKey("read_m1", data, Panic("Matrix index out of bounds."))
                /\ pc' = "panicked"
                /\ UNCHANGED <<rbm, samples>>
        /\ UNCHANGED <<builder, sens, metric, res, env, remote, task>>

CallReadM2 ==
    \E data \in ActorPayloads(1) :
        /\ pc = "actor"
        /\ IF ColumnMutOk(rbm.data, 0)
           THEN /\ rbm' = ReadM2(rbm, data)
                /\ samples' = LastRead(samples.items[1], Some(data))
                /\ out' = OutKey("read_m2", data, Ok(<<>>))
                /\ pc' = pc
           ELSE /\ out' = OutKey("read_m2", data, Panic("Matrix index out of bounds."))
                /\ pc' = "panicked"
                /\ UNCHANGED <<rbm, samples>>
        /\ UNCHANGED <<builder, sens, metric, res, env, remote, task>>

\* Write<TipTilt>: Some(Arc::new(Data::new((*self.tiptilt()).clone())))
WriteTipTilt ==
    /\ pc = "actor"
    /\ Return("write_tiptilt", Tiptilt(sens, rbm))
    /\ UNCHANGED <<samples, builder, sens, rbm, metric, res, env, remote, task>>

\* Write<SegmentTipTilt>: Some(Arc::new(Data::new((*self.segment_tiptilt()).clone())))
WriteSegmentTipTilt ==
    /\ pc = "actor"
    /\ Return("write_segment_tiptilt", SegmentTiptilt(sens, rbm))
    /\ UNCHANGED <<samples, builder, sens, rbm, metric, res, env, remote, task>>

\* Write<SegmentPiston>: Some(Arc::new(Data::new((*self.segment_tiptilt()).clone())))
WriteSegmentPiston ==
    /\ pc = "actor"
    /\ Return("write_segment_piston", SegmentTiptilt(sens, rbm))
    /\ UNCHANGED <<samples, builder, sens, rbm, metric, res, env, remote, task>>

\* a LOM as an actor: built on the default motions, on no sample, or on MaxCols samples
InitActor ==
    /\ pc = "actor"
    /\ sens \in {Store(mask) : mask \in {m \in TwoSegments : m.seg[1] = 1}}
    /\ rbm \in {RbmDefault, FromIter(Iter("flat", MaxSeed, <<>>)).val,
                FromIter(Iter("flat", MaxSeed, [k \in 1..MaxCols |-> <<NM1, NM1>>])).val}
    /\ samples = LastRead(None, None)
    /\ builder = NoBuilder
    /\ out = NoOut
    /\ metric = NoMetric
    /\ res = NoRes
    /\ env = NoEnv
    /\ remote = NoRemote
    /\ task = NoTask

NextActor ==
    \/ CallReadM1
    \/ CallReadM2
    \/ WriteTipTilt
    \/ WriteSegmentTipTilt
    \/ WriteSegmentPiston

SpecActor == InitActor /\ [][NextActor]_vars

\* C23: the payload Write<SegmentPiston> emits is the segment piston of the
\* motion matrix as it is, segment_piston(): 7 values per time sample, and not
\* the segment tip-tilt.
C23_WriteSegmentPiston ==
    out.op = "write_segment_piston" =>
        /\ out.ok
        /\ out.val = SegmentPiston(sens, rbm).val
        /\ Len(out.val) = 7 * rbm.data.ncols

\* the step is a read of `data` into the rows first..first+41 of column 0: on a
\* matrix that has a column 0 it returns, entry first+i of column 0 is data[i]
\* for i below min(L, 42), and every other entry, the shape, the time vector,
\* the sampling frequency and the store are as they were
ReadEffect(first, data) ==
    IF rbm.data.ncols = 0
    THEN ~out'.ok /\ pc' = "panicked" /\ rbm' = rbm
    ELSE /\ out'.ok /\ pc' = "actor"
         /\ SameShape(rbm.data, rbm'.data)
         /\ \A i \in 0..83 : \A j \in 0..(rbm.data.ncols - 1) :
               At(rbm'.data, i, j) =
                   IF j = 0 /\ i >= first /\ i < first + Min(Len(data), 42)
                   THEN data[i - first + 1]
                   ELSE At(rbm.data, i, j)
         /\ rbm'.time = rbm.time
         /\ rbm'.sampling_frequency = rbm.sampling_frequency
         /\ sens' = sens

\* column 0 of the matrix holds the payload read last for the mirror m (0: M1, 1: M2)
HoldsLastRead(m) ==
    samples'.items[m + 1].some =>
        LET data == samples'.items[m + 1].val
        IN  \A i \in 0..(Min(Len(data), 42) - 1) :
                At(rbm'.data, 42 * m + i, 0) = data[i + 1]

\* C27: on a motion matrix that has a column 0, Read<M1RigidBodyMotions> of a
\* payload of L values overwrites the entries 0..min(L,42)-1 of column 0 with the
\* payload, in order, and changes nothing else; Read<M2RigidBodyMotions> does so
\* with the entries 42..42+min(L,42)-1; the two reads commute (an M1 read then an
\* M2 read give the matrix that the M2 read then the M1 read give); and after any
\* reads Write<TipTilt> emits the tip-tilt of the matrix, whose column 0 holds the
\* M1 and the M2 payloads read last.  (On a matrix without a column a read panics.)
C27_ReadsOverwriteColumn0 ==
    [][ /\ out'.op = "read_m1" => ReadEffect(0, out'.key)
        /\ out'.op = "read_m2" => ReadEffect(42, out'.key)
        /\ (out'.op = "read_m1" /\ out'.ok) =>
              \A b \in ActorPayloads(1) :
                  ReadM2(rbm', b) = ReadM1(ReadM2(rbm, b), out'.key)
        /\ (out'.op = "read_m2" /\ out'.ok) =>
              \A a \in ActorPayloads(0) :
                  ReadM1(rbm', a) = ReadM2(ReadM1(rbm, a), out'.key)
        /\ out'.op = "write_tiptilt" =>
              /\ rbm' = rbm /\ sens' = sens /\ samples' = samples
              /\ out'.ok
              /\ out'.val = Tiptilt(sens', rbm').val
              /\ HoldsLastRead(0) /\ HoldsLastRead(1)
              /\ rbm.data.ncols >= 1 =>
                    \A r \in 0..1 : out'.val[r + 1] = Dot(Payload("TipTilt"), 2, r, 0)
      ]_vars

\* C27 happens: a tip-tilt written after an M2 read of 2 values and an M1 read of
\* 43 values on motions of MaxCols samples: entries 0..41 and 42..43 of column 0
\* hold the payloads, entry 44 and the other columns what the matrix was built with
C27_Witness ==
    /\ out.op = "write_tiptilt" /\ out.ok
    /\ rbm.data.ncols = MaxCols
    /\ samples.items[1].some /\ Len(samples.items[1].val) = 43
    /\ samples.items[2].some /\ Len(samples.items[2].val) = 2
    /\ \A i \in 0..41 : At(rbm.data, i, 0) = samples.items[1].val[i + 1]
    /\ \A i \in 0..1 : At(rbm.data, 42 + i, 0) = samples.items[2].val[i + 1]
    /\ rbm.data.data # ReadM1(RbmDefault, samples.items[1].val).data.data
    /\ \E i \in 44..83 : At(rbm.data, i, 0) # 0
    /\ \E r \in 1..2 : out.val[r] # 0

----------------------------------------------------------------------------
(* Properties of the errors of from_record and of build *)

\* C24: from_record returns Ok or a typed Err for every table and never panics:
\* a table without the M1 or the M2 column gives an Err, and a table with fewer
\* than two complete rows (none, or one) gives Ok or an Err as well.
C24_FromRecordNeverPanics ==
    out.op = "from_record" =>
        /\ pc \in {"rbm", "error"}
        /\ out.ok \/ out.err = "FromRecord"
        /\ samples.columns # {M1Label, M2Label} => (~out.ok /\ out.err = "FromRecord")

\* C25: build() on a builder that was given sensitivities returns Ok with those
\* sensitivities, whether or not the default file can be loaded: a failure of the
\* default loader fails build() only when no sensitivities were given.
C25_SuppliedSensitivitiesNeedNoDefault ==
    out.op = "build" =>
        /\ builder.sens.some => (out.ok /\ pc = "lom" /\ sens = builder.sens.val)
        /\ ~out.ok => ~builder.sens.some

----------------------------------------------------------------------------
(* Properties of wavefront and segment_wfe_rms on more than one time sample *)

\* the motions cut to their first time sample
FirstSample(r) == [r EXCEPT !.data = Matrix(r.data.nrows, 1, SubSeq(r.data.data, 1, r.data.nrows))]

\* the store has a wavefront sensitivity of P rows, a SegmentMask of P entries and
\* a PupilMask with P true entries
MasksAgree ==
    /\ Has({"Wavefront", "SegmentMask", "PupilMask"})
    /\ Len(Payload("SegmentMask")) = PupilPoints
    /\ Rank(Payload("PupilMask"), Len(Payload("PupilMask"))) = PupilPoints

\* C29: on motions of N > 1 time samples, with a store whose PupilMask has P true
\* entries and whose SegmentMask has P entries, wavefront() returns as many values
\* as PupilMask has entries and segment_wfe_rms() 7, whatever N; both are computed
\* from the first P values of the masked wavefront only: they are what the first
\* time sample alone gives, and the later samples do not change them.
C29_FirstSampleOnly ==
    (MasksAgree /\ rbm.data.ncols > 1) =>
        /\ out.op = "wavefront" =>
              /\ out.ok
              /\ Len(out.val) = Len(Payload("PupilMask"))
              /\ out.val = Wavefront(sens, FirstSample(rbm)).val
              /\ \A i \in 1..Len(out.val) : Payload("PupilMask")[i] =>
                    /\ Rank(Payload("PupilMask"), i) <= PupilPoints
                    /\ out.val[i] = MaskedValue(Rank(Payload("PupilMask"), i) - 1)
        /\ out.op = "segment_wfe_rms" =>
              /\ out.ok
              /\ Len(out.val) = 7
              /\ out.val = SegmentWfeRms(sens, FirstSample(rbm), out.key).val

\* C29 happens: the wavefront of two time samples whose masked wavefronts differ
\* at every point: the values returned are those of the first sample
C29_Witness ==
    /\ out.op = "wavefront" /\ out.ok
    /\ MasksAgree /\ rbm.data.ncols = 2
    /\ Len(MaskedWavefront(sens, rbm).val) = 2 * PupilPoints
    /\ \A j \in 0..(PupilPoints - 1) : MaskedValue(j) # MaskedValue(PupilPoints + j)
    /\ out.val = Wavefront(sens, FirstSample(rbm)).val
    /\ \E i \in 1..Len(out.val) : out.val[i] # 0

\* C30: segment_wfe_rms returns 0 for a segment s in 1..7 that no entry of
\* SegmentMask names: the sum of squares 0 over the divisor 1, not over 0; for a
\* segment that c >= 1 entries name, the sum of the squares of its c values
\* over c.
C30_EmptySegmentDivisor ==
    (out.op = "segment_wfe_rms" /\ Has({"Wavefront", "SegmentMask"})) =>
        /\ out.ok
        /\ \A sid \in 1..7 :
              LET E == out.key
                  c == Cardinality(SegmentPoints(sid))
                  root == IF E # 0 THEN out.val[sid].x ELSE out.val[sid]
              IN  /\ E # 0 => out.val[sid] = TimesPow10(root, -E)
                  /\ c = 0 => root = Sqrt(RInt(0)) /\ root.sqrt.num = 0 /\ root.sqrt.den = 1
                  /\ c >= 1 =>
                        /\ root.sqrt.den >= 1
                        /\ root.sqrt.num * c = SumSquaresOver(SegmentPoints(sid)) * root.sqrt.den

\* C30 happens: a mask that names the segments 3 (twice) and 1: the RMS of segment
\* 2 is 0 and the RMS of segment 3, over 2 values, is not
C30_Witness ==
    /\ out.op = "segment_wfe_rms" /\ out.ok /\ out.key = 0
    /\ Has({"SegmentMask"}) /\ Payload("SegmentMask") = <<3, 1, 3>>
    /\ out.val[2] = Sqrt(RInt(0))
    /\ out.val[3].sqrt.num # 0
    /\ out.val[3].sqrt.num * 2 = SumSquaresOver(SegmentPoints(3)) * out.val[3].sqrt.den
    /\ rbm.data.ncols = MaxCols

----------------------------------------------------------------------------
(* Table::to_stored_parquet: the upload of a table to an object store.  The
   payload is its length, a chunk the range [lo, hi) of the bytes it holds; each
   await is a step, and the store answers a request with success or an error. *)

\* largest number of whole chunks of a payload
MaxParts == 3
\* const CHUNK_SIZE: usize = 5 * 1024 * 1024
CHUNK_SIZE == 5242880

\* bytes.chunks(CHUNK_SIZE), as ranges of bytes
ByteChunks(len, n) ==
    [c \in 1..((len + n - 1) \div n) |-> [lo |-> (c - 1) * n, hi |-> Min(c * n, len)]]

\* the multipart branch taken from CHUNK_SIZE bytes on
UseMultipartFrom(len) == len >= CHUNK_SIZE
\* if bytes.len() > CHUNK_SIZE
UseMultipart(len) == len > CHUNK_SIZE

\* the PartId the store returns for a part: the tag of the request
PartId(store) == [content_id |-> Len(store.calls) + 1]

\* the store receives a request and answers it
Request(call) == remote' = [remote EXCEPT !.calls = Append(@, call)]

\* the function returns: Ok(()) or, through map_err and ?, the StorePut error
ReturnStored(ok) ==
    /\ out' = Out("to_stored_parquet", IF ok THEN Ok(<<>>) ELSE Err("StorePut"))
    /\ pc' = "returned"

\* to_stored_parquet: self.to_mem()?, which gives the bytes or an error, and
\* the test of the length
CallToStoredParquet ==
    \* the object path, and the payload to_mem gives or its failure
    \E path \in {"lom.parquet", "run/lom.parquet"} :
    \E bytes \in {None} \cup {Some(k * CHUNK_SIZE + d) : k \in 0..MaxParts, d \in {0, 1}} :
        /\ pc = "table"
        /\ IF ~bytes.some
           THEN /\ out' = Out("to_stored_parquet", Err("ToMem"))
                /\ pc' = "returned"
                /\ task' = [task EXCEPT !.path = path]
           ELSE /\ task' = [path |-> path, bytes |-> bytes.val, upload |-> None,
                            chunk |-> 0, parts |-> <<>>, part_number |-> 0]
                /\ pc' = IF UseMultipart(bytes.val) THEN "create_multipart" ELSE "put"
                /\ out' = out
        /\ UNCHANGED <<samples, builder, sens, rbm, metric, res, env, remote>>

\* store.put(&object_path, bytes.into()).await
AwaitPut ==
    \E ok \in BOOLEAN :
        /\ pc = "put"
        /\ Request([op |-> "put", path |-> task.path,
                    body |-> [lo |-> 0, hi |-> task.bytes], ok |-> ok])
        /\ ReturnStored(ok)
        /\ UNCHANGED <<samples, builder, sens, rbm, metric, res, env, task>>

\* store.create_multipart(&object_path).await
AwaitCreateMultipart ==
    \* the id the store gives to a multipart upload, or its failure
    \E upload \in {None} \cup {Some("u1"), Some("u2")} :
        /\ pc = "create_multipart"
        /\ Request([op |-> "create_multipart", path |-> task.path, ok |-> upload.some])
        /\ IF upload.some
           THEN /\ task' = [task EXCEPT !.upload = upload]
                /\ pc' = IF task.chunk < Len(ByteChunks(task.bytes, CHUNK_SIZE))
                         THEN "put_part" ELSE "complete_multipart"
                /\ out' = out
           ELSE /\ ReturnStored(FALSE)
                /\ task' = task
        /\ UNCHANGED <<samples, builder, sens, rbm, metric, res, env>>

\* one pass of the loop over bytes.chunks(CHUNK_SIZE):
\* store.put_part(&object_path, &upload, part_number, chunk_bytes.into()).await
AwaitPutPart ==
    \E ok \in BOOLEAN :
        LET chunks == ByteChunks(task.bytes, CHUNK_SIZE)
            chunk == chunks[task.chunk + 1]
        IN  /\ pc = "put_part"
            /\ Request([op |-> "put_part", path |-> task.path, upload |-> task.upload.val,
                        part_number |-> task.part_number, body |-> chunk, ok |-> ok,
                        part |-> PartId(remote)])
            /\ IF ok
               THEN /\ task' = [task EXCEPT !.parts = Append(@, PartId(remote)),
                                            !.part_number = @ + 1,
                                            !.chunk = @ + 1]
                    /\ pc' = IF task.chunk + 1 < Len(chunks)
                             THEN "put_part" ELSE "complete_multipart"
                    /\ out' = out
               ELSE /\ ReturnStored(FALSE)
                    /\ task' = task
            /\ UNCHANGED <<samples, builder, sens, rbm, metric, res, env>>

\* store.complete_multipart(&object_path, &upload, parts).await
AwaitCompleteMultipart ==
    \E ok \in BOOLEAN :
        /\ pc = "complete_multipart"
        /\ Request([op |-> "complete_multipart", path |-> task.path,
                    upload |-> task.upload.val, parts |-> task.parts, ok |-> ok])
        /\ ReturnStored(ok)
        /\ UNCHANGED <<samples, builder, sens, rbm, metric, res, env, task>>

InitUpload ==
    /\ pc = "table"
    /\ remote = NoRemote
    /\ task = NoTask
    /\ samples = NoIter
    /\ builder = NoBuilder
    /\ sens = <<>>
    /\ rbm = NoRbm
    /\ out = NoOut
    /\ metric = NoMetric
    /\ res = NoRes
    /\ env = NoEnv

NextUpload ==
    \/ CallToStoredParquet
    \/ AwaitPut
    \/ AwaitCreateMultipart
    \/ AwaitPutPart
    \/ AwaitCompleteMultipart

SpecUpload == InitUpload /\ [][NextUpload]_vars

\* the requests of a kind the store has received, in order
Requests(op) == SelectSeq(remote.calls, LAMBDA c : c.op = op)
\* 5 MiB
FiveMiB == 5 * 1024 * 1024
\* the number of chunks of 5 MiB of a payload, the last one possibly shorter
NumParts(len) == (len + FiveMiB - 1) \div FiveMiB

\* C28: a payload of at most 5 MiB is uploaded with one put and no multipart
\* request; a larger one with one create_multipart, then the chunks of 5 MiB in
\* the order of the payload (the last one possibly shorter) with the part numbers
\* 0, 1, 2, .., then one complete_multipart, made only after every part was put
\* and with the parts in the order of their upload; when create_multipart or a
\* put_part fails, the StorePut error is returned and complete_multipart is not
\* called.
C28_MultipartUpload ==
    pc # "table" =>
      IF out.err = "ToMem" THEN remote.calls = <<>> /\ pc = "returned"
      ELSE
        LET len == task.bytes
            calls == remote.calls
            puts == Requests("put")
            creates == Requests("create_multipart")
            parts == Requests("put_part")
            completes == Requests("complete_multipart")
        IN  /\ len <= FiveMiB =>
                /\ creates = <<>> /\ parts = <<>> /\ completes = <<>>
                /\ Len(puts) <= 1
                /\ pc = "returned" =>
                      /\ calls = <<[op |-> "put", path |-> task.path,
                                    body |-> [lo |-> 0, hi |-> len], ok |-> out.ok]>>
            /\ len > FiveMiB =>
                /\ puts = <<>>
                /\ Len(creates) <= 1 /\ Len(completes) <= 1
                /\ calls # <<>> => (calls[1].op = "create_multipart" /\ calls[1].path = task.path)
                /\ Len(parts) <= NumParts(len)
                /\ \A i \in 1..Len(parts) :
                      /\ parts[i].part_number = i - 1
                      /\ parts[i].body.lo = (i - 1) * FiveMiB
                      /\ parts[i].body.hi = IF i * FiveMiB <= len THEN i * FiveMiB ELSE len
                      /\ parts[i].path = task.path
                      /\ creates[1].ok /\ parts[i].upload = task.upload.val
                      /\ i < Len(parts) => parts[i].ok
                      /\ calls[i + 1] = parts[i]
                /\ completes # <<>> =>
                      /\ calls[Len(calls)] = completes[1]
                      /\ Len(parts) = NumParts(len)
                      /\ \A i \in 1..Len(parts) : parts[i].ok
                      /\ completes[1].parts = [i \in 1..Len(parts) |-> parts[i].part]
                      /\ completes[1].upload = task.upload.val
                      /\ completes[1].path = task.path
                /\ pc = "returned" => Len(calls) >= 1
            /\ \A i \in 1..Len(calls) : ~calls[i].ok =>
                  /\ i = Len(calls)
                  /\ pc = "returned" /\ ~out.ok /\ out.err = "StorePut"
                  /\ calls[i].op \in {"create_multipart", "put_part"} => completes = <<>>
            /\ (pc = "returned" /\ out.ok) =>
                  /\ calls # <<>> /\ calls[Len(calls)].ok
                  /\ calls[Len(calls)].op \in {"put", "complete_multipart"}
            /\ (pc = "returned" /\ ~out.ok) => (calls # <<>> /\ ~calls[Len(calls)].ok)

\* C28 happens: a payload of MaxParts chunks of 5 MiB and one byte more, uploaded
\* in MaxParts + 1 parts and completed
C28_Witness ==
    /\ pc = "returned" /\ out.op = "to_stored_parquet" /\ out.ok
    /\ task.bytes = MaxParts * FiveMiB + 1
    /\ Len(Requests("put_part")) = MaxParts + 1
    /\ Requests("put_part")[MaxParts + 1].body.hi = task.bytes
    /\ Requests("put_part")[MaxParts + 1].body.lo = task.bytes - 1
    /\ Len(Requests("complete_multipart")) = 1
    /\ Len(Requests("complete_multipart")[1].parts) = MaxParts + 1

====
